---------------------------- MODULE Spec2Model ----------------------------
(***************************************************************************)
(* dGateway: a recording reverse proxy.  The model covers the capture      *)
(* path (ProxyHandler.ServeHTTP and proxy.ModifyResponse), the bounded     *)
(* requestLogChan with its single consumer goroutine, LogRequest and the   *)
(* recording toggle handlers.                                              *)
(*                                                                         *)
(* Bytes are numbers 0..255, bodies are sequences of bytes, an http.Header *)
(* is a function from the header names present to the sequence of their    *)
(* values, and a body stream is the pair (data, pos) of the bytes behind   *)
(* it and how many of them have been read.                                 *)
(***************************************************************************)
EXTENDS Integers, Sequences, FiniteSets, Bags, TLC

\* ------------------------------------------------------------------ bounds

\* Bytes of a classified body beyond the sample window.
MaxTail == 200

\* Calls of /api/replay in a behaviour.
MaxReplays == 1

\* Rows of the largest store that is listed.
MaxRows == 120

\* Instants of the clock in one calendar day.
SecondsPerDay == 50

\* Handler goroutines that may be in flight at the same time.
MaxInFlight == 2

\* Requests the clients send in a behaviour of Spec.
MaxRequests == 2

\* POSTs to the recording endpoints in a behaviour of Spec.
MaxAdminCalls == 1

\* Inserts the store fails in a behaviour of Spec.
MaxInsertFailures == 1

\* Requests sent beyond the channel's capacity in a behaviour of SpecBurst.
BurstExtra == 2

\* make(chan RequestLog, 100)
QueueCap == 100

\* Runs of InitDB (process starts) in a behaviour.
MaxRuns == 2

\* Calls served by the admin listener, start and stop aside.
MaxReads == 2

\* The rows of an exported store.
MaxExported == 2

Slots == 1..MaxInFlight

BurstSize == QueueCap + BurstExtra

\* ------------------------------------------------------- bytes and streams

\* bytes.NewReader(b) wrapped by ioutil.NopCloser: an unread stream over b.
NewReader(b) == [data |-> b, pos |-> 0]

\* ioutil.ReadAll on a stream that does not fail: the bytes not yet read.
ReadAll(stream) == SubSeq(stream.data, stream.pos + 1, Len(stream.data))

\* The stream once ReadAll has consumed it.
Drained(stream) == [data |-> stream.data, pos |-> Len(stream.data)]

\* What a gzip writer (compress/gzip, on the peer's side) makes of x: the
\* two magic bytes, the deflated payload (a byte-wise bijection here, so that
\* no payload is its own compression) and a trailer holding the size.
GzipCompress(x) ==
    <<31, 139>> \o [i \in 1..Len(x) |-> (x[i] + 128) % 256] \o <<Len(x) % 256>>

\* decompressGzip: gzip.NewReader fails on a bad header (nil, err); ReadAll
\* of the reader fails on a bad trailer, returning what it inflated so far
\* together with the error.
decompressGzip(data) ==
    IF Len(data) < 3 \/ data[1] # 31 \/ data[2] # 139
    THEN [err |-> TRUE, out |-> <<>>]
    ELSE LET payload == SubSeq(data, 3, Len(data) - 1)
             out     == [i \in 1..Len(payload) |-> (payload[i] + 128) % 256]
         IN  [err |-> data[Len(data)] # Len(payload) % 256, out |-> out]

\* ----------------------------------------------------------------- headers

\* The header names of the model, in the order json.Marshal writes map keys.
HeaderNames == <<"Content-Encoding", "Content-Length", "Content-Type", "Set-Cookie">>

\* http.Header.Get: the first value of the name, "" when absent.
HeaderGet(h, k) == IF k \in DOMAIN h /\ Len(h[k]) > 0 THEN h[k][1] ELSE ""

\* http.Header.Del
HeaderDel(h, k) == [x \in (DOMAIN h) \ {k} |-> h[x]]

\* http.Header.Set: the name now has the single value v.
HeaderSet(h, k, v) == [x \in (DOMAIN h) \cup {k} |-> IF x = k THEN <<v>> ELSE h[x]]

\* A Go string holding JSON: text = TRUE for the text of an object with the
\* given members, FALSE for a string that is no JSON text.
JSONText(members) == [text |-> TRUE, members |-> members]

\* The zero value "" of a Go string, which json.Unmarshal rejects.
EmptyString == [text |-> FALSE, members |-> <<>>]

\* HeadersToJSON: json.Marshal of the map, an object of name -> list of
\* values with the names sorted; modelled as the sequence of its members.
HeadersToJSON(headers) ==
    LET present == SelectSeq(HeaderNames, LAMBDA k : k \in DOMAIN headers)
    IN  JSONText([i \in 1..Len(present) |-> <<present[i], headers[present[i]]>>])

\* json.Unmarshal of such a text into an http.Header.
JSONToHeaders(members) ==
    [k \in {members[i][1] : i \in 1..Len(members)} |->
        members[CHOOSE i \in 1..Len(members) : members[i][1] = k][2]]

\* ------------------------------------------------------ content classifier

\* strings.HasPrefix
HasPrefix(s, prefix) ==
    Len(s) >= Len(prefix) /\ SubSeq(s, 1, Len(prefix)) = prefix

\* strings.Contains
Contains(s, substr) ==
    \E i \in 1..(Len(s) - Len(substr) + 1) :
        SubSeq(s, i, i + Len(substr) - 1) = substr

\* strings.HasPrefix(contentType, "text/")
HasTextPrefix(contentType) == HasPrefix(contentType, "text/")

\* strings.Contains(contentType, "application/json" | "application/xml" |
\* "application/javascript" | "application/xhtml+xml")
ContainsTextualType(contentType) ==
    \/ Contains(contentType, "application/json")
    \/ Contains(contentType, "application/xml")
    \/ Contains(contentType, "application/javascript")
    \/ Contains(contentType, "application/xhtml+xml")

\* min
min(a, b) == IF a < b THEN a ELSE b

\* The bytes isTextData counts as text characters.
IsTextChar(b) == b = 9 \/ b = 10 \/ b = 13 \/ (b >= 32 /\ b <= 126)

\* Mutant: a printable fraction of exactly 0.7 counts as text.
isTextData_AtLeast(data, contentType) ==
    IF HasTextPrefix(contentType) \/ ContainsTextualType(contentType) THEN TRUE
    ELSE IF Len(data) = 0 THEN TRUE
    ELSE LET n         == min(Len(data), 512)
             textChars == Cardinality({i \in 1..n : IsTextChar(data[i])})
         IN  10 * textChars >= 7 * n

\* isTextData.  float64(textChars)/float64(n) > 0.7 is decided in integers:
\* for n <= 512 the quotient is either the double 0.7 itself or further from
\* it than any rounding error.
isTextData(data, contentType) ==
    IF HasTextPrefix(contentType) \/ ContainsTextualType(contentType) THEN TRUE
    ELSE IF Len(data) = 0 THEN TRUE
    ELSE LET n         == min(Len(data), 512)
             textChars == Cardinality({i \in 1..n : IsTextChar(data[i])})
         IN  10 * textChars > 7 * n

\* getContentTypeFromHeaders: "" when the text does not parse.
getContentTypeFromHeaders(headersJSON) ==
    IF ~headersJSON.text THEN ""
    ELSE HeaderGet(JSONToHeaders(headersJSON.members), "Content-Type")

\* ------------------------------------------------------------------- state

VARIABLES
    IsRecording,     \* the global recording flag
    requestLogChan,  \* the buffered channel: the records pending, oldest first
    consumer,        \* the consumer goroutine: waiting on the channel, or in LogRequest
    db,              \* the rows of table requests, in insertion order
    logged,          \* the operational log: the bag of messages written by log.Print*
    clock,           \* time.Now()
    nreq,            \* requests received so far
    nadmin,          \* POSTs to the recording endpoints so far
    pc,              \* per handler goroutine: where its exchange stands
    clientReq,       \* per handler: the request as the client sent it
    rBody,           \* per handler: r.Body as handed to the reverse proxy
    upstreamReq,     \* per handler: the request as the upstream received it
    reqLog,          \* the RequestLog each request context points to
    upstreamResp,    \* per handler: the response as the upstream sent it
    clientResp,      \* per handler: the response as delivered to the client
    enq,             \* per handler: the branch ModifyResponse took at the channel
    accepted,        \* history: the records the channel accepted, in order
    handed,          \* history: the records passed to LogRequest, in order
    proc,            \* the process: "down", "serving", or "exited" by log.Fatalf
    columns,         \* the columns of table requests in the store file
    migration,       \* what the last run of InitDB did
    adminResp,       \* the last call served by the admin listener and its answer
    nread,           \* calls served by the admin listener that may write to the log
    call,            \* a function applied on its own: its arguments, then its result
    target,          \* the -target option: the URL of the upstream
    recordOnStart    \* the -record-on-start option

vars == <<IsRecording, requestLogChan, consumer, db, logged, clock, nreq, nadmin,
          pc, clientReq, rBody, upstreamReq, reqLog, upstreamResp, clientResp,
          enq, accepted, handed, proc, columns, migration, adminResp, nread, call,
          target, recordOnStart>>

pipeVars == <<requestLogChan, consumer, db, accepted, handed>>

exchangeVars == <<pc, clientReq, rBody, upstreamReq, reqLog, upstreamResp,
                  clientResp, enq>>

adminVars == <<proc, columns, migration, adminResp, nread, call, target,
               recordOnStart>>

\* Everything the proxy listener and the persistence pipeline touch.
proxyVars == <<IsRecording, requestLogChan, consumer, db, logged, clock, nreq, nadmin,
               pc, clientReq, rBody, upstreamReq, reqLog, upstreamResp, clientResp,
               enq, accepted, handed>>

\* ------------------------------------------------------------------ inputs

\* n copies of byte b.
Repeat(b, n) == [i \in 1..n |-> b]

\* Bodies for the classifier: none; one byte at and around each edge of the
\* text characters; ten bytes and a full sample window with the text share
\* at, just under and just over 0.7, text first or last; and a full window
\* followed by MaxTail bytes that would tip the share the other way.
Samples ==
    {<<>>}
    \cup {<<b>> : b \in {0, 8, 9, 10, 11, 13, 14, 31, 32, 126, 127, 255}}
    \cup {Repeat(65, k) \o Repeat(0, 10 - k) : k \in {6, 7, 8}}
    \cup {Repeat(255, 10 - k) \o Repeat(9, k) : k \in {7, 8}}
    \cup {Repeat(32, k) \o Repeat(127, 512 - k) : k \in {358, 359}}
    \cup {Repeat(126, 358) \o Repeat(31, 154) \o Repeat(65, MaxTail),
          Repeat(126, 359) \o Repeat(31, 153) \o Repeat(0, MaxTail)}

\* Declared media types for the classifier.
MediaTypes ==
    {"", "text/plain", "text/html; charset=utf-8", "text/", "text", "TEXT/HTML",
     "application/json", "application/json; charset=utf-8", "application/xml",
     "application/javascript", "application/xhtml+xml", "application/ld+json",
     "image/svg+xml", "image/png", "application/octet-stream",
     "multipart/mixed; type=application/json"}

NoHeaders == [k \in {} |-> <<>>]

\* Requests the clients send.
ReqGet ==
    [method |-> "GET", url |-> "/a", header |-> NoHeaders, body |-> <<>>,
     readErr |-> FALSE]

ReqGzipPost ==
    [method |-> "POST", url |-> "/b?q=1",
     header |-> ("Content-Encoding" :> <<"gzip">>) @@ ("Content-Type" :> <<"application/json">>),
     body |-> GzipCompress(<<123, 125>>), readErr |-> FALSE]

\* Declares gzip, but the body is no gzip stream.
ReqBadGzip ==
    [method |-> "PUT", url |-> "/c",
     header |-> ("Content-Encoding" :> <<"gzip">>),
     body |-> <<104, 105>>, readErr |-> FALSE]

\* The connection breaks while the body is being read.
ReqReadErr ==
    [method |-> "POST", url |-> "/d", header |-> NoHeaders, body |-> <<104, 105>>,
     readErr |-> TRUE]

Requests == {ReqGet, ReqGzipPost, ReqBadGzip, ReqReadErr}

\* Responses the upstream sends.
RespPlain ==
    [status |-> 200,
     header |-> ("Content-Type" :> <<"text/plain">>) @@ ("Content-Length" :> <<"2">>)
                @@ ("Set-Cookie" :> <<"a=1", "b=2">>),
     body |-> <<79, 75>>, readErr |-> FALSE]

RespGzip ==
    [status |-> 201,
     header |-> ("Content-Encoding" :> <<"gzip">>) @@ ("Content-Type" :> <<"image/png">>)
                @@ ("Content-Length" :> <<"6">>),
     body |-> GzipCompress(<<137, 80, 0>>), readErr |-> FALSE]

\* Declares gzip; the stream has a gzip header but its trailer is wrong.
RespBadGzip ==
    [status |-> 404,
     header |-> ("Content-Encoding" :> <<"gzip">>) @@ ("Content-Length" :> <<"4">>),
     body |-> <<31, 139, 200, 9>>, readErr |-> FALSE]

\* The upstream connection breaks while the body is being read.
RespReadErr ==
    [status |-> 200, header |-> ("Content-Length" :> <<"2">>), body |-> <<79, 75>>,
     readErr |-> TRUE]

\* The upstream of the model: what it may answer to each request.
UpstreamAnswers(rq) ==
    CASE rq.url = "/a"     -> {RespPlain, RespReadErr}
      [] rq.url = "/b?q=1" -> {RespGzip, RespPlain}
      [] OTHER             -> {RespBadGzip}

\* ------------------------------------------------------------- RequestLog

\* The RequestLog literal of ServeHTTP; the fields it does not name are zero.
NewRequestLog(now, r, requestBody) ==
    [ID |-> 0, Timestamp |-> now, Method |-> r.method, URL |-> r.url,
     RequestHeaders |-> HeadersToJSON(r.header), RequestBody |-> requestBody,
     RequestBodySize |-> 0, IsRequestBodyText |-> FALSE,
     StatusCode |-> 0, ResponseHeaders |-> EmptyString, ResponseBody |-> <<>>,
     ResponseBodySize |-> 0, IsResponseBodyText |-> FALSE]

ZeroRequestLog ==
    [ID |-> 0, Timestamp |-> 0, Method |-> "", URL |-> "",
     RequestHeaders |-> EmptyString, RequestBody |-> <<>>,
     RequestBodySize |-> 0, IsRequestBodyText |-> FALSE,
     StatusCode |-> 0, ResponseHeaders |-> EmptyString, ResponseBody |-> <<>>,
     ResponseBodySize |-> 0, IsResponseBodyText |-> FALSE]

NoRequest == [method |-> "", url |-> "", header |-> NoHeaders, body |-> <<>>]

NoResponse == [status |-> 0, header |-> NoHeaders, body |-> <<>>]

\* A handler that has not received a request, or whose upstream has not answered.
NoClientRequest ==
    [method |-> "", url |-> "", header |-> NoHeaders, body |-> <<>>, readErr |-> FALSE]

NoUpstreamResponse ==
    [status |-> 0, header |-> NoHeaders, body |-> <<>>, readErr |-> FALSE]

\* log.Printf / log.Println
Log(bag, msg) == bag (+) SetToBag({msg})

\* ------------------------------------------------------- ProxyHandler

\* Mutant: the body is not restored, the proxy gets the drained stream.
RestoreBody_Drained(original, requestBody) == Drained(original)

\* r.Body = ioutil.NopCloser(bytes.NewReader(requestBody))
RestoreBody(original, requestBody) == NewReader(requestBody)

\* decompressedReqBody: the inflated body when the request declares gzip and
\* inflates, the body as read otherwise.
DecompressedReqBody(header, requestBody) ==
    IF HeaderGet(header, "Content-Encoding") = "gzip"
       /\ ~decompressGzip(requestBody).err
    THEN decompressGzip(requestBody).out
    ELSE requestBody

\* Mutant: one RequestLog shared by all requests.
ctxKey_Shared(s) == 1

\* context.WithValue(r.Context(), "reqLog", &reqLog): each request carries a
\* pointer to its own RequestLog.
ctxKey(s) == s

\* A handler goroutine that is not in the middle of an exchange; the server
\* starts the next request on the lowest such one.
FreeSlot(s) ==
    /\ pc[s] # "forwarded"
    /\ \A t \in Slots : t < s => pc[t] = "forwarded"

RequestReadFails_Ignored(r) == FALSE

\* ioutil.ReadAll(r.Body) returns an error.
RequestReadFails(r) == r.readErr

\* ProxyHandler.ServeHTTP up to the round trip to the upstream: read the body,
\* restore it, build the RequestLog, put it in the context and forward.
ServeHTTP(s, r, now) ==
    /\ FreeSlot(s)
    /\ nreq' = nreq + 1
    /\ clock' = now
    /\ clientReq' = [clientReq EXCEPT ![s] = r]
    /\ upstreamResp' = [upstreamResp EXCEPT ![s] = NoUpstreamResponse]
    /\ enq' = [enq EXCEPT ![s] = "none"]
    /\ IF RequestReadFails(r)
       THEN \* http.Error(w, "Error reading request body", 500); return
            /\ logged' = Log(logged, "Error reading request body")
            /\ pc' = [pc EXCEPT ![s] = "failed"]
            /\ clientResp' = [clientResp EXCEPT ![s] =
                                 [status |-> 500, header |-> NoHeaders, body |-> <<>>]]
            /\ rBody' = [rBody EXCEPT ![s] = Drained(NewReader(r.body))]
            /\ upstreamReq' = [upstreamReq EXCEPT ![s] = NoRequest]
            /\ UNCHANGED reqLog
       ELSE LET original    == NewReader(r.body)
                requestBody == ReadAll(original)
                restored    == RestoreBody(original, requestBody)
                gzipErr     == HeaderGet(r.header, "Content-Encoding") = "gzip"
                               /\ decompressGzip(requestBody).err
            IN  /\ logged' = IF gzipErr
                             THEN Log(logged, "Error decompressing request body")
                             ELSE logged
                /\ rBody' = [rBody EXCEPT ![s] = restored]
                /\ reqLog' = [reqLog EXCEPT ![ctxKey(s)] =
                                 NewRequestLog(now, r,
                                     DecompressedReqBody(r.header, requestBody))]
                \* h.proxy.ServeHTTP(w, newReq): the upstream reads what is
                \* left of r.Body
                /\ upstreamReq' = [upstreamReq EXCEPT ![s] =
                                      [method |-> r.method, url |-> r.url,
                                       header |-> r.header, body |-> ReadAll(restored)]]
                /\ pc' = [pc EXCEPT ![s] = "forwarded"]
                /\ clientResp' = [clientResp EXCEPT ![s] = NoResponse]
    /\ UNCHANGED <<IsRecording, pipeVars, nadmin, adminVars>>

\* ----------------------------------------------------- proxy.ModifyResponse

\* Whether lines 763-775 inflate the body: gzip is declared and inflates.
Inflated(header, raw) ==
    /\ HeaderGet(header, "Content-Encoding") = "gzip"
    /\ ~decompressGzip(raw).err

\* Mutant: the output of decompressGzip is used even when it reports an error.
BodyAfterCodec_Partial(header, raw) ==
    IF HeaderGet(header, "Content-Encoding") = "gzip"
    THEN decompressGzip(raw).out
    ELSE raw

\* The variable body after the gzip block.
BodyAfterCodec(header, raw) ==
    IF Inflated(header, raw) THEN decompressGzip(raw).out ELSE raw

\* Mutant: Content-Length is set from the body as read, not as inflated.
HeaderAfterCodec_RawLength(header, raw) ==
    IF Inflated(header, raw)
    THEN HeaderSet(HeaderDel(header, "Content-Encoding"), "Content-Length",
                   ToString(Len(raw)))
    ELSE header

\* Mutant: the headers are rewritten whenever gzip is declared.
HeaderAfterCodec_Always(header, raw) ==
    IF HeaderGet(header, "Content-Encoding") = "gzip"
    THEN HeaderSet(HeaderDel(header, "Content-Encoding"), "Content-Length",
                   ToString(Len(decompressGzip(raw).out)))
    ELSE header

\* resp.Header after the gzip block.
HeaderAfterCodec(header, raw) ==
    IF Inflated(header, raw)
    THEN HeaderSet(HeaderDel(header, "Content-Encoding"), "Content-Length",
                   ToString(Len(decompressGzip(raw).out)))
    ELSE header

\* Mutant: the headers are captured after the gzip block has rewritten them.
CapturedResponseHeaders_Late(header, raw) == HeadersToJSON(HeaderAfterCodec(header, raw))

\* reqLog.ResponseHeaders = HeadersToJSON(resp.Header), taken before the body
\* is read.
CapturedResponseHeaders(header, raw) == HeadersToJSON(header)

\* Mutant: off by one, the channel takes one record more than its capacity.
CanSend_OffByOne(chan) == Len(chan) <= QueueCap

\* The select on requestLogChan: TRUE when the send case is taken.
CanSend(chan) == Len(chan) < QueueCap

\* Mutant: the recording flag is not consulted.
Gate_Always(recording) == TRUE

\* Mutant: the flag is read once, when the process starts, and not on every
\* response.
Gate_AtStart(recording) == recordOnStart

\* Mutant: the record is dropped without a word.
LogDrop_Silent(bag) == bag

\* The default case of the select.
LogDrop(bag) == Log(bag, "Request log channel is full, dropping log entry.")

\* if IsRecording { select ... }
Gate(recording) == recording

ResponseReadFails_Ignored(resp) == FALSE

\* ioutil.ReadAll(resp.Body) returns an error.
ResponseReadFails(resp) == resp.readErr

ModifyResponse(s, resp) ==
    /\ pc[s] = "forwarded"
    /\ upstreamResp' = [upstreamResp EXCEPT ![s] = resp]
    /\ LET k   == ctxKey(s)
           rl1 == [reqLog[k] EXCEPT
                      !.StatusCode = resp.status,
                      !.ResponseHeaders = CapturedResponseHeaders(resp.header, resp.body)]
       IN  IF ResponseReadFails(resp)
           THEN \* return err: the reverse proxy answers 502 Bad Gateway
                /\ reqLog' = [reqLog EXCEPT ![k] = rl1]
                /\ logged' = Log(logged, "Error reading response body")
                /\ pc' = [pc EXCEPT ![s] = "aborted"]
                /\ clientResp' = [clientResp EXCEPT ![s] =
                                     [status |-> 502, header |-> NoHeaders, body |-> <<>>]]
                /\ UNCHANGED <<requestLogChan, accepted, enq>>
           ELSE LET raw     == ReadAll(NewReader(resp.body))
                    gzipErr == HeaderGet(resp.header, "Content-Encoding") = "gzip"
                               /\ decompressGzip(raw).err
                    body    == BodyAfterCodec(resp.header, raw)
                    header  == HeaderAfterCodec(resp.header, raw)
                    rl2     == [rl1 EXCEPT !.ResponseBody = body]
                    lg      == IF gzipErr
                               THEN Log(logged, "Error decompressing response body")
                               ELSE logged
                IN  /\ reqLog' = [reqLog EXCEPT ![k] = rl2]
                    /\ clientResp' = [clientResp EXCEPT ![s] =
                                         [status |-> resp.status, header |-> header,
                                          body |-> ReadAll(NewReader(body))]]
                    /\ pc' = [pc EXCEPT ![s] = "responded"]
                    /\ IF Gate(IsRecording)
                       THEN IF CanSend(requestLogChan)
                            THEN /\ requestLogChan' = Append(requestLogChan, rl2)
                                 /\ accepted' = Append(accepted, rl2)
                                 /\ enq' = [enq EXCEPT ![s] = "sent"]
                                 /\ logged' = lg
                            ELSE /\ logged' = LogDrop(lg)
                                 /\ enq' = [enq EXCEPT ![s] = "dropped"]
                                 /\ UNCHANGED <<requestLogChan, accepted>>
                       ELSE /\ logged' = lg
                            /\ enq' = [enq EXCEPT ![s] = "off"]
                            /\ UNCHANGED <<requestLogChan, accepted>>
    /\ UNCHANGED <<IsRecording, consumer, db, handed, clock, nreq, nadmin,
                   clientReq, rBody, upstreamReq, adminVars>>

\* ------------------------------------------------- consumer and LogRequest

\* Mutant: the receive takes the newest record instead of the oldest.
Receive_Newest ==
    /\ consumer.at = "recv"
    /\ requestLogChan # <<>>
    /\ consumer' = [at |-> "log", entry |-> requestLogChan[Len(requestLogChan)]]
    /\ requestLogChan' = SubSeq(requestLogChan, 1, Len(requestLogChan) - 1)
    /\ handed' = Append(handed, requestLogChan[Len(requestLogChan)])
    /\ UNCHANGED <<IsRecording, db, logged, clock, nreq, nadmin, exchangeVars, accepted,
                   adminVars>>

\* for logEntry := range requestLogChan: the receive takes the oldest record.
Receive ==
    /\ consumer.at = "recv"
    /\ requestLogChan # <<>>
    /\ consumer' = [at |-> "log", entry |-> Head(requestLogChan)]
    /\ requestLogChan' = Tail(requestLogChan)
    /\ handed' = Append(handed, Head(requestLogChan))
    /\ UNCHANGED <<IsRecording, db, logged, clock, nreq, nadmin, exchangeVars, accepted,
                   adminVars>>

\* Mutant: the sizes and flags are bound as the caller supplied them.
RowOf_Supplied(logEntry) == logEntry

\* The row LogRequest binds to the INSERT: sizes and text flags are computed
\* from the bodies and the stored headers.
RowOf(logEntry) ==
    [logEntry EXCEPT
        !.RequestBodySize = Len(logEntry.RequestBody),
        !.IsRequestBodyText =
            isTextData(logEntry.RequestBody,
                       getContentTypeFromHeaders(logEntry.RequestHeaders)),
        !.ResponseBodySize = Len(logEntry.ResponseBody),
        !.IsResponseBodyText =
            isTextData(logEntry.ResponseBody,
                       getContentTypeFromHeaders(logEntry.ResponseHeaders))]

\* Mutant: the ID of the RequestLog, which is zero, is inserted.
NextID_FromCaller(rows) == 0

\* id INTEGER PRIMARY KEY AUTOINCREMENT: rows are never deleted, so the next
\* id is one more than the number of rows.
NextID(rows) == Len(rows) + 1

\* What the store may answer to an insert.
InsertOutcomes == {"ok", "prepare failed", "exec failed"}

\* Mutant: the loop ends when an insert fails.
NextIteration_StopOnError(outcome) ==
    IF outcome = "ok" THEN [at |-> "recv", entry |-> ZeroRequestLog]
    ELSE [at |-> "stopped", entry |-> ZeroRequestLog]

\* The consumer after LogRequest has returned: LogRequest returns nothing,
\* and the loop goes on to the next receive.
NextIteration(outcome) == [at |-> "recv", entry |-> ZeroRequestLog]

\* LogRequest(logEntry), in the consumer goroutine.
LogRequest(outcome) ==
    /\ consumer.at = "log"
    /\ consumer' = NextIteration(outcome)
    /\ CASE outcome = "ok" ->
              /\ db' = Append(db, [RowOf(consumer.entry) EXCEPT !.ID = NextID(db)])
              /\ UNCHANGED logged
         [] outcome = "prepare failed" ->
              /\ logged' = Log(logged, "Failed to prepare statement")
              /\ UNCHANGED db
         [] outcome = "exec failed" ->
              /\ logged' = Log(logged, "Failed to insert log entry")
              /\ UNCHANGED db
    /\ UNCHANGED <<IsRecording, requestLogChan, clock, nreq, nadmin, exchangeVars,
                   accepted, handed, adminVars>>

\* ------------------------------------------------------ recording handlers

\* Mutant: the method of the call is not looked at.
startRecordingHandler_AnyMethod(method) ==
    /\ IsRecording' = TRUE
    /\ logged' = Log(logged, "Recording started.")
    /\ nadmin' = nadmin + 1
    /\ adminResp' = [op |-> "start-recording", method |-> method,
                     status |-> 200, body |-> "Recording started"]
    /\ UNCHANGED <<pipeVars, clock, nreq, exchangeVars, proc, columns, migration,
                   nread, call, target, recordOnStart>>

startRecordingHandler(method) ==
    /\ IF method # "POST"
       THEN /\ adminResp' = [op |-> "start-recording", method |-> method,
                             status |-> 405, body |-> "Method not allowed"]
            /\ UNCHANGED <<IsRecording, logged, nadmin>>
       ELSE /\ IsRecording' = TRUE
            /\ logged' = Log(logged, "Recording started.")
            /\ nadmin' = nadmin + 1
            /\ adminResp' = [op |-> "start-recording", method |-> method,
                             status |-> 200, body |-> "Recording started"]
    /\ UNCHANGED <<pipeVars, clock, nreq, exchangeVars, proc, columns, migration,
                   nread, call, target, recordOnStart>>

stopRecordingHandler(method) ==
    /\ IF method # "POST"
       THEN /\ adminResp' = [op |-> "stop-recording", method |-> method,
                             status |-> 405, body |-> "Method not allowed"]
            /\ UNCHANGED <<IsRecording, logged, nadmin>>
       ELSE /\ IsRecording' = FALSE
            /\ logged' = Log(logged, "Recording stopped.")
            /\ nadmin' = nadmin + 1
            /\ adminResp' = [op |-> "stop-recording", method |-> method,
                             status |-> 200, body |-> "Recording stopped"]
    /\ UNCHANGED <<pipeVars, clock, nreq, exchangeVars, proc, columns, migration,
                   nread, call, target, recordOnStart>>

\* getRecordingStatusHandler: /api/recording-status
getRecordingStatusHandler(method) ==
    /\ adminResp' =
          IF method # "GET"
          THEN [op |-> "recording-status", method |-> method, status |-> 405,
                body |-> "Method not allowed"]
          ELSE [op |-> "recording-status", method |-> method, status |-> 200,
                body |-> IF IsRecording THEN "recording" ELSE "stopped"]
    /\ UNCHANGED <<proxyVars, proc, columns, migration, nread, call, target,
                   recordOnStart>>

\* authMiddleware: without the session cookie the call is redirected to the
\* login page and the handler is not run.
authMiddleware(sessionToken, next) ==
    IF sessionToken # "valid_token"
    THEN /\ adminResp' = [op |-> "redirect", status |-> 302, body |-> "/login"]
         /\ UNCHANGED <<proxyVars, proc, columns, migration, nread, call, target,
                        recordOnStart>>
    ELSE next

\* ------------------------------------------------------------ the store

\* The columns of CREATE TABLE IF NOT EXISTS requests.
BaseColumns ==
    {"id", "timestamp", "method", "url", "request_headers", "request_body",
     "status_code", "response_headers", "response_body"}

\* The columns InitDB adds when they are missing, in the order it tries them.
AddedColumns ==
    <<"request_body_size", "is_request_body_text", "response_body_size",
      "is_response_body_text">>

AllColumns == BaseColumns \cup {AddedColumns[i] : i \in 1..Len(AddedColumns)}

\* The RequestLog field bound to, or scanned from, each column.  A row is the
\* record of the fields that hold a value; a column that is NULL in a row is a
\* field the record does not have.
FieldOf(column) ==
    CASE column = "id"                    -> "ID"
      [] column = "timestamp"             -> "Timestamp"
      [] column = "method"                -> "Method"
      [] column = "url"                   -> "URL"
      [] column = "request_headers"       -> "RequestHeaders"
      [] column = "request_body"          -> "RequestBody"
      [] column = "request_body_size"     -> "RequestBodySize"
      [] column = "is_request_body_text"  -> "IsRequestBodyText"
      [] column = "status_code"           -> "StatusCode"
      [] column = "response_headers"      -> "ResponseHeaders"
      [] column = "response_body"         -> "ResponseBody"
      [] column = "response_body_size"    -> "ResponseBodySize"
      [] column = "is_response_body_text" -> "IsResponseBodyText"

\* The row the previous version's LogRequest inserted: it binds no size and no
\* text flag, the table had no such columns.
OldRowOf(logEntry, id) ==
    [f \in {FieldOf(c) : c \in BaseColumns} |-> IF f = "ID" THEN id ELSE logEntry[f]]

\* database/sql Scan of the selected columns of a row into ints, bools,
\* strings and a time.Time: converting NULL to any of them is an error.
ScanFails(row, selected) == \E c \in selected : FieldOf(c) \notin DOMAIN row

\* ------------------------------------------------------------------ InitDB

\* The faults a run of InitDB may meet: none, one of its statements failing,
\* or (not fatal) the WAL pragma failing.
InitOutcomes ==
    {[step |-> s, column |-> 0, fault |-> "none"] :
        s \in {"none", "open", "create", "begin", "commit", "wal"}}
    \cup {[step |-> "add", column |-> k, fault |-> f] :
            k \in 1..Len(AddedColumns), f \in {"query", "alter"}}

\* Mutant: the column is added without looking whether it is there.
addColumnIfNotExists_Blind(tx, columnName, fault) ==
    IF tx.fatal # "" THEN tx
    ELSE IF fault = "query" THEN [tx EXCEPT !.fatal = "Failed to query table info"]
    ELSE IF fault = "alter" \/ columnName \in tx.cols
         THEN [tx EXCEPT !.alters = Append(@, columnName),
                         !.fatal = "Failed to add column"]
    ELSE [tx EXCEPT !.cols = @ \cup {columnName}, !.alters = Append(@, columnName)]

\* addColumnIfNotExists, within the transaction tx: cols are the columns the
\* transaction sees, alters the ALTER statements it has executed, fatal the
\* message of the log.Fatalf that ended the process ("" while it runs).
addColumnIfNotExists(tx, columnName, fault) ==
    IF tx.fatal # "" THEN tx
    ELSE IF fault = "query" THEN [tx EXCEPT !.fatal = "Failed to query table info"]
    ELSE IF columnName \in tx.cols THEN tx
    ELSE IF fault = "alter"
         THEN [tx EXCEPT !.alters = Append(@, columnName),
                         !.fatal = "Failed to add column"]
    ELSE [tx EXCEPT !.cols = @ \cup {columnName}, !.alters = Append(@, columnName)]

\* The four calls of InitDB in order, call k meeting FaultAt[k].
RECURSIVE AddColumns(_, _, _)
AddColumns(tx, k, FaultAt) ==
    IF k > Len(AddedColumns) THEN tx
    ELSE AddColumns(addColumnIfNotExists(tx, AddedColumns[k], FaultAt[k]), k + 1, FaultAt)

\* Mutant: the ALTER statements run outside the transaction, each durable at
\* once.
Durable_Autocommit(before, tx, committed) == tx.cols

\* What the store file holds once the transaction has ended: its columns when
\* it committed, the columns from before it otherwise (the process exits with
\* the transaction open; the deferred Rollback does not run, the store discards
\* the uncommitted changes).
Durable(before, tx, committed) == IF committed THEN tx.cols ELSE before

\* InitDB(dataSourceName), called by main before any listener is started.
InitDB(outcome) ==
    /\ proc # "serving"
    /\ LET created == IF columns = {} THEN BaseColumns ELSE columns
           FaultAt == [k \in 1..Len(AddedColumns) |->
                          IF outcome.step = "add" /\ outcome.column = k
                          THEN outcome.fault ELSE "none"]
           tx      == AddColumns([cols |-> created, alters |-> <<>>, fatal |-> ""],
                                 1, FaultAt)
           early   == CASE outcome.step = "open"   -> "Failed to open database"
                        [] outcome.step = "create" -> "Failed to create table"
                        [] outcome.step = "begin"  ->
                              "Failed to begin transaction for schema migration"
                        [] OTHER -> ""
           fatal   == IF early # "" THEN early
                      ELSE IF tx.fatal # "" THEN tx.fatal
                      ELSE IF outcome.step = "commit"
                           THEN "Failed to commit schema migration"
                      ELSE ""
       IN  /\ columns' = IF outcome.step \in {"open", "create"} THEN columns
                         ELSE IF early # "" THEN created
                         ELSE Durable(created, tx, fatal = "")
           /\ migration' = [run |-> migration.run + 1,
                            previous |-> migration.alters,
                            before |-> columns,
                            alters |-> IF early # "" THEN <<>> ELSE tx.alters,
                            committed |-> fatal = "",
                            fatal |-> fatal,
                            wal |-> fatal = "" /\ outcome.step # "wal"]
           /\ proc' = IF fatal = "" THEN "serving" ELSE "exited"
    /\ UNCHANGED <<proxyVars, adminResp, nread, call, target, recordOnStart>>

\* The process ends (it is stopped, or the machine goes down).
Terminate ==
    /\ proc = "serving"
    /\ proc' = "down"
    /\ UNCHANGED <<proxyVars, columns, migration, adminResp, nread, call, target, recordOnStart>>

\* ---------------------------------------------------------- admin reads

\* strconv.Atoi over the decimal texts of the model; any other text is an
\* error.
NumeralValue ==
    [s \in {"-1", "0", "1", "2", "3", "4", "50", "99", "100", "101", "150"} |->
        CASE s = "-1" -> 0 - 1 [] s = "0" -> 0 [] s = "1" -> 1 [] s = "2" -> 2
          [] s = "3" -> 3 [] s = "4" -> 4 [] s = "50" -> 50 [] s = "99" -> 99
          [] s = "100" -> 100 [] s = "101" -> 101 [] s = "150" -> 150]

Atoi(s) ==
    IF s \in DOMAIN NumeralValue THEN [err |-> FALSE, n |-> NumeralValue[s]]
    ELSE [err |-> TRUE, n |-> 0]

\* The RequestLog of an exchange as ModifyResponse completes it.
CapturedExchange(now, rq, up) ==
    [NewRequestLog(now, rq, DecompressedReqBody(rq.header, rq.body)) EXCEPT
        !.StatusCode = up.status,
        !.ResponseHeaders = CapturedResponseHeaders(up.header, up.body),
        !.ResponseBody = BodyAfterCodec(up.header, up.body)]

\* The rows with the given id, by position.
RowsWithID(rows, id) == {i \in 1..Len(rows) : rows[i].ID = id}

\* The columns getRequestDetail selects.
DetailColumns ==
    {"id", "timestamp", "method", "url", "request_headers", "request_body_size",
     "is_request_body_text", "status_code", "response_headers", "response_body_size",
     "is_response_body_text"}

\* What getRequestDetail answers once QueryRow has found the row.
DetailAnswer(row) ==
    IF ScanFails(row, DetailColumns)
    THEN [op |-> "detail", status |-> 500, body |-> "Failed to fetch request details"]
    ELSE [op |-> "detail", status |-> 200,
          body |-> [f \in {FieldOf(c) : c \in DetailColumns} |-> row[f]]]

\* getRequestDetail: GET /api/requests/{idStr}
getRequestDetail(idStr) ==
    /\ proc = "serving"
    /\ LET id    == Atoi(idStr)
           found == RowsWithID(db, id.n)
           answer ==
               IF id.err
               THEN [op |-> "detail", status |-> 400, body |-> "Invalid request ID"]
               ELSE IF ~(DetailColumns \subseteq columns)
               THEN [op |-> "detail", status |-> 500,
                     body |-> "Failed to fetch request details"]
               ELSE IF found = {}
               THEN [op |-> "detail", status |-> 404, body |-> "Request not found"]
               ELSE DetailAnswer(db[CHOOSE i \in found : TRUE])
       IN  /\ adminResp' = answer @@ [id |-> idStr]
           /\ nread' = nread + 1
           /\ logged' = IF answer.status = 500
                        THEN Log(logged, "Error fetching request details")
                        ELSE logged
    /\ UNCHANGED <<IsRecording, pipeVars, clock, nreq, nadmin, exchangeVars,
                   proc, columns, migration, call, target, recordOnStart>>

\* What the body handlers answer for the row found: the stored body under
\* the stored Content-Type, application/octet-stream when there is none.
BodyAnswer(op, body, headersJSON) ==
    [op |-> op, status |-> 200,
     contentType |-> IF getContentTypeFromHeaders(headersJSON) # ""
                     THEN getContentTypeFromHeaders(headersJSON)
                     ELSE "application/octet-stream",
     body |-> body]

\* getRequestBodyHandler: /api/requests/body/request/{idStr}
getRequestBodyHandler(idStr) ==
    /\ proc = "serving"
    /\ LET id    == Atoi(idStr)
           found == RowsWithID(db, id.n)
           row   == db[CHOOSE i \in found : TRUE]
           answer ==
               IF id.err
               THEN [op |-> "request-body", status |-> 400, body |-> "Invalid request ID"]
               ELSE IF found = {}
               THEN [op |-> "request-body", status |-> 404, body |-> "Request not found"]
               ELSE IF ScanFails(row, {"request_body", "request_headers"})
               THEN [op |-> "request-body", status |-> 500,
                     body |-> "Failed to fetch request body"]
               ELSE BodyAnswer("request-body", row.RequestBody, row.RequestHeaders)
       IN  /\ adminResp' = answer @@ [id |-> idStr]
           /\ nread' = nread + 1
           /\ logged' = IF answer.status = 500
                        THEN Log(logged, "Error fetching request body")
                        ELSE logged
    /\ UNCHANGED <<IsRecording, pipeVars, clock, nreq, nadmin, exchangeVars,
                   proc, columns, migration, call, target, recordOnStart>>

\* getResponseBodyHandler: /api/requests/body/response/{idStr}
getResponseBodyHandler(idStr) ==
    /\ proc = "serving"
    /\ LET id    == Atoi(idStr)
           found == RowsWithID(db, id.n)
           row   == db[CHOOSE i \in found : TRUE]
           answer ==
               IF id.err
               THEN [op |-> "response-body", status |-> 400, body |-> "Invalid request ID"]
               ELSE IF found = {}
               THEN [op |-> "response-body", status |-> 404, body |-> "Request not found"]
               ELSE IF ScanFails(row, {"response_body", "response_headers"})
               THEN [op |-> "response-body", status |-> 500,
                     body |-> "Failed to fetch response body"]
               ELSE BodyAnswer("response-body", row.ResponseBody, row.ResponseHeaders)
       IN  /\ adminResp' = answer @@ [id |-> idStr]
           /\ nread' = nread + 1
           /\ logged' = IF answer.status = 500
                        THEN Log(logged, "Error fetching response body")
                        ELSE logged
    /\ UNCHANGED <<IsRecording, pipeVars, clock, nreq, nadmin, exchangeVars,
                   proc, columns, migration, call, target, recordOnStart>>

\* ------------------------------------------------------------- getRequests

\* ASCII case folding, as LIKE applies it.
UpperCase == "ABCDEFGHIJKLMNOPQRSTUVWXYZ"

LowerCase == "abcdefghijklmnopqrstuvwxyz"

Lower(c) ==
    IF \E i \in 1..26 : SubSeq(UpperCase, i, i) = c
    THEN LET i == CHOOSE i \in 1..26 : SubSeq(UpperCase, i, i) = c
         IN  SubSeq(LowerCase, i, i)
    ELSE c

\* url LIKE pattern, as SQLite decides it: % stands for any run of
\* characters, _ for any one character, letters match without regard to case.
RECURSIVE Like(_, _)
Like(s, pattern) ==
    IF pattern = "" THEN s = ""
    ELSE LET h    == SubSeq(pattern, 1, 1)
             rest == SubSeq(pattern, 2, Len(pattern))
         IN  IF h = "%"
             THEN Like(s, rest) \/ (s # "" /\ Like(SubSeq(s, 2, Len(s)), pattern))
             ELSE /\ s # ""
                  /\ h = "_" \/ Lower(h) = Lower(SubSeq(s, 1, 1))
                  /\ Like(SubSeq(s, 2, Len(s)), rest)

\* The calendar days of the model, counted from the day of instant 0.
DateValue ==
    [s \in {"2024-01-01", "2024-01-02", "2024-01-03"} |->
        CASE s = "2024-01-01" -> 0 [] s = "2024-01-02" -> 1 [] s = "2024-01-03" -> 2]

\* timestamp >= startDate + " 00:00:00"
NotBefore(timestamp, startDate) ==
    timestamp >= DateValue[startDate] * SecondsPerDay

\* timestamp <= endDate + " 23:59:59".  The stored text of an instant carries
\* the zone offset after the seconds, so the text of an instant within the
\* second 23:59:59 is longer than the bound and sorts after it.
NotAfter(timestamp, endDate) ==
    timestamp < (DateValue[endDate] + 1) * SecondsPerDay - 1

\* The WHERE clause both statements of getRequests are built with.
Matches(row, urlFilter, startDate, endDate) ==
    /\ urlFilter # "" => Like(row.URL, "%" \o urlFilter \o "%")
    /\ startDate # "" => NotBefore(row.Timestamp, startDate)
    /\ endDate # "" => NotAfter(row.Timestamp, endDate)

\* ORDER BY timestamp DESC.  The timestamps of the rows are distinct.
OrderByTimestampDesc(rows) ==
    SortSeq(rows, LAMBDA a, b : a.Timestamp > b.Timestamp)

\* LIMIT limit OFFSET offset
LimitOffset_NextPage(rows, limit, offset) ==
    SubSeq(rows, offset + limit + 1, min(Len(rows), offset + 2 * limit))

\* LIMIT ? OFFSET ?
LimitOffset(rows, limit, offset) ==
    SubSeq(rows, offset + 1, min(Len(rows), offset + limit))

\* page := 1, replaced by a page parameter that parses to a positive number.
PageOf(pageStr) ==
    IF pageStr # "" /\ ~Atoi(pageStr).err /\ Atoi(pageStr).n > 0
    THEN Atoi(pageStr).n ELSE 1

\* Mutant: a page_size out of range is brought to the nearest end of the range.
PageSizeOf_Clamped(pageSizeStr) ==
    IF pageSizeStr # "" /\ ~Atoi(pageSizeStr).err
    THEN IF Atoi(pageSizeStr).n > 100 THEN 100
         ELSE IF Atoi(pageSizeStr).n < 1 THEN 1 ELSE Atoi(pageSizeStr).n
    ELSE 50

\* pageSize := 50, replaced by a page_size parameter that parses to a number
\* in 1..100.
PageSizeOf(pageSizeStr) ==
    IF /\ pageSizeStr # "" /\ ~Atoi(pageSizeStr).err
       /\ Atoi(pageSizeStr).n > 0 /\ Atoi(pageSizeStr).n <= 100
    THEN Atoi(pageSizeStr).n ELSE 50

\* Mutant: the page count is rounded down.
TotalPages_Floor(totalCount, pageSize) == totalCount \div pageSize

\* (totalCount + pageSize - 1) / pageSize
TotalPages(totalCount, pageSize) == (totalCount + pageSize - 1) \div pageSize

\* rows.Scan of the five selected columns into a RequestLog.
ListedRow(row) ==
    [ZeroRequestLog EXCEPT !.ID = row.ID, !.Timestamp = row.Timestamp,
                           !.Method = row.Method, !.URL = row.URL,
                           !.StatusCode = row.StatusCode]

\* for rows.Next() { rows.Scan(...); requests = append(requests, req) }
ScanRows(rows) == [i \in 1..Len(rows) |-> ListedRow(rows[i])]

\* getRequests: GET /api/requests?page=&page_size=&url=&start_date=&end_date=
\* The count statement and the page statement see the same rows.
getRequests(pageStr, pageSizeStr, urlFilter, startDate, endDate) ==
    /\ proc = "serving"
    /\ LET page       == PageOf(pageStr)
           pageSize   == PageSizeOf(pageSizeStr)
           offset     == (page - 1) * pageSize
           matching   == SelectSeq(db, LAMBDA row :
                                     Matches(row, urlFilter, startDate, endDate))
           totalCount == Len(matching)
           rows       == LimitOffset(OrderByTimestampDesc(matching), pageSize, offset)
       IN  adminResp' =
               [op |-> "list", status |-> 200,
                query |-> [page |-> pageStr, page_size |-> pageSizeStr,
                           url |-> urlFilter, start_date |-> startDate,
                           end_date |-> endDate],
                body |-> [requests |-> ScanRows(rows),
                          page |-> page, page_size |-> pageSize,
                          total_count |-> totalCount,
                          total_pages |-> TotalPages(totalCount, pageSize)]]
    /\ UNCHANGED <<proxyVars, proc, columns, migration, nread, call, target, recordOnStart>>

\* ------------------------------------------------------------ replayRequest

\* strings.Index for a one-character separator: 0 when s does not hold it.
IndexOf(s, c) ==
    IF \E i \in 1..Len(s) : SubSeq(s, i, i) = c
    THEN CHOOSE i \in 1..Len(s) :
            SubSeq(s, i, i) = c /\ \A j \in 1..(i - 1) : SubSeq(s, j, j) # c
    ELSE 0

\* strings.LastIndex for a one-character separator: 0 when s does not hold it.
LastIndexOf(s, c) ==
    IF \E i \in 1..Len(s) : SubSeq(s, i, i) = c
    THEN CHOOSE i \in 1..Len(s) :
            SubSeq(s, i, i) = c /\ \A j \in (i + 1)..Len(s) : SubSeq(s, j, j) # c
    ELSE 0

\* strings.Cut
Cut(s, sep) ==
    LET i == IndexOf(s, sep)
    IN  IF i = 0 THEN [before |-> s, after |-> "", found |-> FALSE]
        ELSE [before |-> SubSeq(s, 1, i - 1), after |-> SubSeq(s, i + 1, Len(s)),
              found |-> TRUE]

\* strings.ToLower, for ASCII
RECURSIVE ToLower(_)
ToLower(s) ==
    IF s = "" THEN "" ELSE Lower(SubSeq(s, 1, 1)) \o ToLower(SubSeq(s, 2, Len(s)))

IsLetter(c) == Contains(LowerCase, Lower(c))

IsSchemeChar(c) == IsLetter(c) \/ Contains("0123456789+-.", c)

\* url.getScheme: the text before the first colon when it is a scheme.
getScheme(rawURL) ==
    LET i    == IndexOf(rawURL, ":")
        head == SubSeq(rawURL, 1, i - 1)
    IN  IF i = 1 THEN [err |-> TRUE, scheme |-> "", rest |-> rawURL]
        ELSE IF /\ i > 1
                /\ IsLetter(SubSeq(rawURL, 1, 1))
                /\ \A j \in 1..Len(head) : IsSchemeChar(SubSeq(head, j, j))
        THEN [err |-> FALSE, scheme |-> head, rest |-> SubSeq(rawURL, i + 1, Len(rawURL))]
        ELSE [err |-> FALSE, scheme |-> "", rest |-> rawURL]

NoURL ==
    [err |-> TRUE, Scheme |-> "", Opaque |-> "", Host |-> "", Path |-> "",
     RawQuery |-> "", Fragment |-> ""]

\* url.Parse, for URLs without user information, escapes or a bare trailing
\* question mark.
Parse(rawURL) ==
    LET frag   == Cut(rawURL, "#")
        sch    == getScheme(frag.before)
        query  == Cut(sch.rest, "?")
        rest   == query.before
        rooted == HasPrefix(rest, "/")
        net    == HasPrefix(rest, "//")
                  /\ (sch.scheme # "" \/ ~HasPrefix(rest, "///"))
        auth   == Cut(SubSeq(rest, 3, Len(rest)), "/")
    IN  IF sch.err THEN NoURL
        ELSE IF ~rooted /\ sch.scheme # ""
        THEN [err |-> FALSE, Scheme |-> ToLower(sch.scheme), Opaque |-> rest,
              Host |-> "", Path |-> "", RawQuery |-> query.after,
              Fragment |-> frag.after]
        ELSE IF ~rooted /\ Contains(Cut(rest, "/").before, ":") THEN NoURL
        ELSE IF net /\ Contains(auth.before, " ") THEN NoURL
        ELSE [err |-> FALSE, Scheme |-> ToLower(sch.scheme), Opaque |-> "",
              Host |-> IF net THEN auth.before ELSE "",
              Path |-> IF ~net THEN rest
                       ELSE IF auth.found THEN "/" \o auth.after ELSE "",
              RawQuery |-> query.after, Fragment |-> frag.after]

\* The loop of url.resolvePath that removes dot segments: dst is what has
\* been written after the initial slash, first whether a segment is yet to
\* be written, elem the segment cut last.
RECURSIVE RemoveDotSegments(_, _, _, _, _)
RemoveDotSegments(dst, first, elem, remaining, found) ==
    IF ~found
    THEN LET r == "/" \o dst \o (IF elem = "." \/ elem = ".." THEN "/" ELSE "")
         IN  IF Len(r) > 1 /\ SubSeq(r, 2, 2) = "/" THEN SubSeq(r, 2, Len(r)) ELSE r
    ELSE LET cut == Cut(remaining, "/")
             e   == cut.before
         IN  IF e = "."
             THEN RemoveDotSegments(dst, FALSE, e, cut.after, cut.found)
             ELSE IF e = ".."
             THEN LET index == LastIndexOf(dst, "/")
                  IN  IF index = 0
                      THEN RemoveDotSegments("", TRUE, e, cut.after, cut.found)
                      ELSE RemoveDotSegments(SubSeq(dst, 1, index - 1), first, e,
                                             cut.after, cut.found)
             ELSE RemoveDotSegments(dst \o (IF first THEN "" ELSE "/") \o e, FALSE, e,
                                    cut.after, cut.found)

\* url.resolvePath
resolvePath(base, ref) ==
    LET full == IF ref = "" THEN base
                ELSE IF SubSeq(ref, 1, 1) # "/"
                THEN SubSeq(base, 1, LastIndexOf(base, "/")) \o ref
                ELSE ref
    IN  IF full = "" THEN "" ELSE RemoveDotSegments("", TRUE, "", full, TRUE)

\* Mutant: the reference's own host is not honoured.
ResolveReference_TargetHost(u, ref) ==
    IF ref.Scheme # ""
    THEN [ref EXCEPT !.Path = resolvePath(ref.Path, "")]
    ELSE IF ref.Path = "" /\ ref.RawQuery = ""
    THEN [ref EXCEPT !.Scheme = u.Scheme, !.Host = u.Host,
                     !.Path = resolvePath(u.Path, ""), !.RawQuery = u.RawQuery,
                     !.Fragment = IF ref.Fragment = "" THEN u.Fragment
                                  ELSE ref.Fragment]
    ELSE [ref EXCEPT !.Scheme = u.Scheme, !.Host = u.Host,
                     !.Path = resolvePath(u.Path, ref.Path)]

\* (*URL).ResolveReference, for a base that is not opaque.
ResolveReference(u, ref) ==
    IF ref.Scheme # "" \/ ref.Host # ""
    THEN [ref EXCEPT !.Scheme = IF ref.Scheme = "" THEN u.Scheme ELSE ref.Scheme,
                     !.Path = resolvePath(ref.Path, "")]
    ELSE IF ref.Opaque # ""
    THEN [ref EXCEPT !.Scheme = u.Scheme, !.Host = "", !.Path = ""]
    ELSE IF ref.Path = "" /\ ref.RawQuery = ""
    THEN [ref EXCEPT !.Scheme = u.Scheme, !.Host = u.Host,
                     !.Path = resolvePath(u.Path, ""), !.RawQuery = u.RawQuery,
                     !.Fragment = IF ref.Fragment = "" THEN u.Fragment
                                  ELSE ref.Fragment]
    ELSE [ref EXCEPT !.Scheme = u.Scheme, !.Host = u.Host,
                     !.Path = resolvePath(u.Path, ref.Path)]

\* (*URL).String
String(u) ==
    (IF u.Scheme # "" THEN u.Scheme \o ":" ELSE "")
    \o (IF u.Opaque # "" THEN u.Opaque
        ELSE (IF (u.Scheme # "" \/ u.Host # "") /\ (u.Host # "" \/ u.Path # "")
              THEN "//" \o u.Host ELSE "")
             \o (IF u.Path # "" /\ SubSeq(u.Path, 1, 1) # "/" /\ u.Host # ""
                 THEN "/" ELSE "")
             \o u.Path)
    \o (IF u.RawQuery # "" THEN "?" \o u.RawQuery ELSE "")
    \o (IF u.Fragment # "" THEN "#" \o u.Fragment ELSE "")

\* The characters of base64.StdEncoding, as byte values.
Base64Char(v) ==
    IF v < 26 THEN 65 + v
    ELSE IF v < 52 THEN 97 + (v - 26)
    ELSE IF v < 62 THEN 48 + (v - 52)
    ELSE IF v = 62 THEN 43 ELSE 47

\* base64.StdEncoding.EncodeToString, as the bytes of the string.
RECURSIVE EncodeToString(_)
EncodeToString(b) ==
    IF Len(b) = 0 THEN <<>>
    ELSE LET b1 == b[1]
             b2 == IF Len(b) > 1 THEN b[2] ELSE 0
             b3 == IF Len(b) > 2 THEN b[3] ELSE 0
             n  == b1 * 65536 + b2 * 256 + b3
         IN  <<Base64Char(n \div 262144), Base64Char((n \div 4096) % 64),
               IF Len(b) > 1 THEN Base64Char((n \div 64) % 64) ELSE 61,
               IF Len(b) > 2 THEN Base64Char(n % 64) ELSE 61>>
             \o (IF Len(b) > 3 THEN EncodeToString(SubSeq(b, 4, Len(b))) ELSE <<>>)

\* The runes of string(b), as utf8.DecodeRuneInString reads them: a byte that
\* starts no well-formed sequence is one rune, utf8.RuneError.
RuneError == 65533

RECURSIVE Runes(_)
Runes(b) ==
    IF Len(b) = 0 THEN <<>>
    ELSE LET c       == b[1]
             cont(k) == Len(b) >= k /\ b[k] >= 128 /\ b[k] <= 191
             rest(k) == SubSeq(b, k + 1, Len(b))
         IN  IF c < 128 THEN <<c>> \o Runes(rest(1))
             ELSE IF c >= 194 /\ c <= 223 /\ cont(2)
             THEN <<(c % 32) * 64 + (b[2] % 64)>> \o Runes(rest(2))
             ELSE IF /\ c >= 224 /\ c <= 239 /\ cont(2) /\ cont(3)
                     /\ (c = 224 => b[2] >= 160) /\ (c = 237 => b[2] <= 159)
             THEN <<(c % 16) * 4096 + (b[2] % 64) * 64 + (b[3] % 64)>> \o Runes(rest(3))
             ELSE IF /\ c >= 240 /\ c <= 244 /\ cont(2) /\ cont(3) /\ cont(4)
                     /\ (c = 240 => b[2] >= 144) /\ (c = 244 => b[2] <= 143)
             THEN <<(c % 8) * 262144 + (b[2] % 64) * 4096 + (b[3] % 64) * 64 + (b[4] % 64)>>
                  \o Runes(rest(4))
             ELSE <<RuneError>> \o Runes(rest(1))

\* A Go string as json.Encoder writes it: the JSON string of its runes, every
\* byte that is no valid UTF-8 replaced by U+FFFD.
JSONString(b) == Runes(b)

\* strings.Join
RECURSIVE Join(_, _)
Join(elems, sep) ==
    IF Len(elems) = 0 THEN ""
    ELSE IF Len(elems) = 1 THEN elems[1]
    ELSE elems[1] \o sep \o Join(Tail(elems), sep)

\* isText, as replayRequest decides it: by the media type alone.
ReplayIsText(contentType, bodyBytes) ==
    \/ HasPrefix(contentType, "text/")
    \/ Contains(contentType, "json")
    \/ Contains(contentType, "xml")
    \/ Contains(contentType, "javascript")

\* http.NewRequest rejects a method that is no token; "" stands for GET.
ValidMethod(method) == ~Contains(method, " ")

\* client.Do gives up before the network on a URL that is not http(s) or has
\* no host.
Dialable(finalURL) ==
    /\ ~Parse(finalURL).err
    /\ Parse(finalURL).Scheme \in {"http", "https"}
    /\ Parse(finalURL).Host # ""

\* url.Parse(targetStr), with the fallback of replayRequest.
ParsedTarget(targetStr) ==
    IF Parse(targetStr).err
    THEN [NoURL EXCEPT !.err = FALSE, !.Scheme = "http", !.Host = "localhost:8081"]
    ELSE Parse(targetStr)

\* An upstream that accepts the request and never answers.
RespNever ==
    [status |-> 0, header |-> NoHeaders, body |-> <<>>, readErr |-> FALSE,
     never |-> TRUE]

\* client.Do on an upstream that never answers: client is &http.Client{}, its
\* Timeout is zero, and the request carries context.Background(), so nothing
\* ends the wait.
Stalls(resp) == "never" \in DOMAIN resp

ReadFails_Ignored(resp) == FALSE

\* ioutil.ReadAll(resp.Body) returns an error.
ReadFails(resp) == resp.readErr

\* Mutant: the replay goes through the capture path and leaves a record of
\* itself on the channel.
replayRequest_Captured(method, replayData, reached, resp) ==
    /\ proc = "serving"
    /\ nread' = nread + 1
    /\ adminResp' = [op |-> "replay", method |-> method, replayData |-> replayData,
                     serial |-> nread + 1, status |-> 200, body |-> ""]
    /\ requestLogChan' =
          Append(requestLogChan,
                 [ZeroRequestLog EXCEPT !.Method = replayData.Method,
                                        !.URL = replayData.URL])
    /\ UNCHANGED <<IsRecording, consumer, db, accepted, handed, logged, clock, nreq,
                   nadmin, exchangeVars, proc, columns, migration, call, target,
                   recordOnStart>>

\* replayRequest: /api/replay with the given method and decoded body; the
\* upstream is reached or not, and answers as given.  The answer records
\* the number of the call and, once client.Do was called, whether the
\* upstream was reached and what it sent.  A call that waits for an upstream
\* that never answers has written nothing: its status is 0.
replayRequest(method, replayData, reached, resp) ==
    /\ proc = "serving"
    /\ nread' = nread + 1
    /\ LET parsedTarget    == ParsedTarget(target)
           parsedReplayURL == Parse(replayData.URL)
           finalURL        == String(ResolveReference(parsedTarget, parsedReplayURL))
           replayReq ==
               [method |-> IF replayData.Method = "" THEN "GET" ELSE replayData.Method,
                url |-> finalURL,
                header |-> [k \in DOMAIN replayData.Headers |->
                               <<Join(replayData.Headers[k], ", ")>>],
                body |-> replayData.Body]
           bodyBytes   == BodyAfterCodec(resp.header, resp.body)
           contentType == HeaderGet(resp.header, "Content-Type")
           isText      == ReplayIsText(contentType, bodyBytes)
           call0 == [op |-> "replay", method |-> method, replayData |-> replayData,
                     serial |-> nread + 1]
       IN  IF method # "POST"
           THEN /\ adminResp' = call0 @@ [status |-> 405, body |-> "Method not allowed"]
                /\ UNCHANGED logged
           ELSE IF ~replayData.valid
           THEN /\ adminResp' = call0 @@ [status |-> 400, body |-> "Invalid request body"]
                /\ logged' = Log(logged, "Error decoding replay data")
           ELSE IF parsedReplayURL.err
           THEN /\ adminResp' = call0 @@ [status |-> 400,
                                          body |-> "Invalid URL in replay data"]
                /\ logged' = Log(IF Parse(target).err
                                 THEN Log(logged, "Warning: Failed to parse target URL")
                                 ELSE logged,
                                 "Error parsing replay URL")
           ELSE LET warned == IF Parse(target).err
                              THEN Log(logged, "Warning: Failed to parse target URL")
                              ELSE logged
                    call1  == call0 @@ [finalURL |-> finalURL]
                IN  IF ~ValidMethod(replayData.Method) \/ Parse(finalURL).err
                    THEN /\ adminResp' = call1 @@
                              [status |-> 500, body |-> "Failed to create replay request"]
                         /\ logged' = Log(warned, "Error creating replay request")
                    ELSE IF ~Dialable(finalURL) \/ ~reached
                    THEN /\ adminResp' = call1 @@
                              [status |-> 500, sent |-> replayReq, reached |-> FALSE,
                               body |-> "Failed to execute replayed request"]
                         /\ logged' = Log(warned, "Error executing replayed request")
                    ELSE IF Stalls(resp)
                    THEN /\ adminResp' = call1 @@
                              [status |-> 0, sent |-> replayReq, reached |-> TRUE,
                               upstream |-> resp, body |-> ""]
                         /\ logged' = warned
                    ELSE IF ReadFails(resp)
                    THEN /\ adminResp' = call1 @@
                              [status |-> 500, sent |-> replayReq, reached |-> TRUE,
                               upstream |-> resp,
                               body |-> "Failed to read replayed response body"]
                         /\ logged' = Log(warned, "Error reading replayed response body")
                    ELSE /\ adminResp' = call1 @@
                              [status |-> 200, sent |-> replayReq, reached |-> TRUE,
                               upstream |-> resp,
                               contentType |-> contentType, bodyBytes |-> bodyBytes,
                               isText |-> isText,
                               body |-> [statusCode |-> resp.status,
                                         headers |-> resp.header,
                                         body |-> IF isText THEN JSONString(bodyBytes)
                                                  ELSE EncodeToString(bodyBytes)]]
                         /\ logged' =
                              IF /\ HeaderGet(resp.header, "Content-Encoding") = "gzip"
                                 /\ decompressGzip(resp.body).err
                              THEN Log(warned, "Warning: Failed to decompress gzipped replay response")
                              ELSE warned
    /\ UNCHANGED <<IsRecording, pipeVars, clock, nreq, nadmin, exchangeVars,
                   proc, columns, migration, call, target, recordOnStart>>

\* ---------------------------------------------------------- exportHARHandler

\* The name/value pairs of a header map: one per value.  The maps are ranged
\* over in no particular order, so the pairs are kept as a set, each with the
\* position of its value under its name.
NameValuePairs(h) ==
    UNION {{<<name, k, h[name][k]>> : k \in 1..Len(h[name])} : name \in DOMAIN h}

\* url.ParseQuery: the name=value parts between ampersands, as a header-like
\* map from each name to its values in order.
RECURSIVE QueryParts(_)
QueryParts(rawQuery) ==
    IF rawQuery = "" THEN <<>>
    ELSE LET part == Cut(rawQuery, "&")
             kv   == Cut(part.before, "=")
         IN  (IF part.before = "" THEN <<>> ELSE <<<<kv.before, kv.after>>>>)
             \o QueryParts(part.after)

Query(rawQuery) ==
    LET parts == QueryParts(rawQuery)
    IN  [name \in {parts[i][1] : i \in 1..Len(parts)} |->
            LET at == SelectSeq([i \in 1..Len(parts) |-> i],
                                LAMBDA i : parts[i][1] = name)
            IN  [k \in 1..Len(at) |-> parts[at[k]][2]]]

\* http.StatusText, for the status codes of the model.
StatusText(code) ==
    CASE code = 200 -> "OK" [] code = 201 -> "Created" [] code = 404 -> "Not Found"
      [] OTHER -> ""

\* The HAR entry exportRequestsToHAR makes of one row, as it is encoded.
\* HeadersSize, the page reference and the empty cookie lists are left out.
HAREntry(req) ==
    LET reqHeaders  == JSONToHeaders(req.RequestHeaders.members)
        respHeaders == JSONToHeaders(req.ResponseHeaders.members)
        mime(h)     == IF HeaderGet(h, "Content-Type") # ""
                       THEN HeaderGet(h, "Content-Type")
                       ELSE "application/octet-stream"
    IN  [startedDateTime |-> req.Timestamp,
         time |-> 0,
         request |->
            [method |-> req.Method, url |-> req.URL, httpVersion |-> "HTTP/1.1",
             headers |-> NameValuePairs(reqHeaders),
             queryString |-> IF Parse(req.URL).err THEN {}
                             ELSE NameValuePairs(Query(Parse(req.URL).RawQuery)),
             postData |-> IF Len(req.RequestBody) > 0
                          THEN <<[mimeType |-> mime(reqHeaders),
                                  text |-> JSONString(req.RequestBody)]>>
                          ELSE <<>>,
             bodySize |-> Len(req.RequestBody)],
         response |->
            [status |-> req.StatusCode, statusText |-> StatusText(req.StatusCode),
             httpVersion |-> "HTTP/1.1",
             headers |-> NameValuePairs(respHeaders),
             content |-> [size |-> Len(req.ResponseBody), mimeType |-> mime(respHeaders),
                          text |-> JSONString(req.ResponseBody)],
             redirectURL |-> "",
             bodySize |-> Len(req.ResponseBody)],
         timings |-> [send |-> 0, wait |-> 0, receive |-> 0]]

\* exportHARHandler: /api/export/har.  The rows are taken ORDER BY timestamp;
\* headers of a row that are no JSON text fail the whole export.
exportHARHandler(method) ==
    /\ proc = "serving"
    /\ nread' = nread + 1
    /\ LET requests == SortSeq(db, LAMBDA a, b : a.Timestamp < b.Timestamp)
           broken   == \E i \in 1..Len(requests) :
                          ~requests[i].RequestHeaders.text
                          \/ ~requests[i].ResponseHeaders.text
       IN  IF method # "GET"
           THEN /\ adminResp' = [op |-> "export", status |-> 405,
                                 body |-> "Method not allowed"]
                /\ UNCHANGED logged
           ELSE IF broken
           THEN /\ adminResp' = [op |-> "export", status |-> 500,
                                 body |-> "Failed to export requests to HAR format"]
                /\ logged' = Log(logged, "Error exporting to HAR")
           ELSE /\ adminResp' =
                      [op |-> "export", status |-> 200,
                       body |-> [version |-> "1.2", creator |-> "dGateway",
                                 entries |-> [i \in 1..Len(requests) |->
                                                HAREntry(requests[i])]]]
                /\ UNCHANGED logged
    /\ UNCHANGED <<IsRecording, pipeVars, clock, nreq, nadmin, exchangeVars,
                   proc, columns, migration, call, target, recordOnStart>>

\* ---------------------------------------------------------- specifications

\* The insert failures so far, as the operational log shows them.
InsertFailures ==
    CopiesIn("Failed to prepare statement", logged)
    + CopiesIn("Failed to insert log entry", logged)

\* What a run of InitDB on a store that does not exist yet leaves behind.
FreshMigration ==
    [run |-> 1, previous |-> <<>>, before |-> {}, alters |-> AddedColumns,
     committed |-> TRUE, fatal |-> "", wal |-> TRUE]

\* No call has been served by the admin listener.
NoAdminCall == [op |-> "none"]

\* flag.Bool("record-on-start", true, ...)
DefaultRecordOnStart == TRUE

\* flag.String("target", "http://127.0.0.1:8081", ...)
DefaultTarget == "http://127.0.0.1:8081"

\* No function is being applied on its own.
NoCall == [fn |-> "none"]

\* main, in memory: IsRecording = *recordOnStart, an empty channel, the
\* consumer waiting, no request received.
InitMemory(on) ==
    /\ IsRecording = on
    /\ recordOnStart = on
    /\ requestLogChan = <<>>
    /\ consumer = [at |-> "recv", entry |-> ZeroRequestLog]
    /\ logged = EmptyBag
    /\ clock = 0
    /\ nreq = 0
    /\ nadmin = 0
    /\ pc = [s \in Slots |-> "idle"]
    /\ clientReq = [s \in Slots |-> NoClientRequest]
    /\ rBody = [s \in Slots |-> NewReader(<<>>)]
    /\ upstreamReq = [s \in Slots |-> NoRequest]
    /\ reqLog = [s \in Slots |-> ZeroRequestLog]
    /\ upstreamResp = [s \in Slots |-> NoUpstreamResponse]
    /\ clientResp = [s \in Slots |-> NoResponse]
    /\ enq = [s \in Slots |-> "none"]
    /\ accepted = <<>>
    /\ handed = <<>>

\* main on a store that did not exist: InitDB has created and migrated it,
\* the listeners are up.
InitWith(on) ==
    /\ InitMemory(on)
    /\ db = <<>>
    /\ proc = "serving"
    /\ columns = AllColumns
    /\ migration = FreshMigration
    /\ adminResp = NoAdminCall
    /\ nread = 0
    /\ call = NoCall
    /\ target = DefaultTarget

Init == \E on \in BOOLEAN : InitWith(on)

Methods == {"POST", "GET"}

Next ==
    \/ \E s \in Slots, r \in Requests :
          nreq < MaxRequests /\ ServeHTTP(s, r, clock + 1)
    \/ \E s \in Slots : \E resp \in UpstreamAnswers(clientReq[s]) : ModifyResponse(s, resp)
    \/ Receive
    \/ \E outcome \in InsertOutcomes :
          (outcome # "ok" => InsertFailures < MaxInsertFailures) /\ LogRequest(outcome)
    \/ nadmin < MaxAdminCalls /\ startRecordingHandler("POST")
    \/ nadmin < MaxAdminCalls /\ stopRecordingHandler("POST")

Spec == Init /\ [][Next]_vars

\* The consumer goroutine keeps running: a receive that is possible happens,
\* and LogRequest returns.
FairSpec == Spec /\ WF_vars(Receive) /\ WF_vars(LogRequest("ok"))

\* A burst against the default start (recording on) and a healthy store:
\* BurstSize like gzip requests arrive within one reading of the clock, each
\* answered with the same gzip response, while the consumer runs.
InitBurst == InitWith(DefaultRecordOnStart)

NextBurst ==
    \/ \E s \in Slots : nreq < BurstSize /\ ServeHTTP(s, ReqGzipPost, clock)
    \/ \E s \in Slots : ModifyResponse(s, RespGzip)
    \/ Receive
    \/ LogRequest("ok")

SpecBurst == InitBurst /\ [][NextBurst]_vars

\* All requests of the burst have been answered.
BurstOver ==
    /\ nreq = BurstSize
    /\ \A s \in Slots : pc[s] # "forwarded"

\* The same burst with the consumer blocked for as long as it lasts.
NextBlocked ==
    \/ \E s \in Slots : nreq < BurstSize /\ ServeHTTP(s, ReqGzipPost, clock)
    \/ \E s \in Slots : ModifyResponse(s, RespGzip)
    \/ BurstOver /\ Receive
    \/ LogRequest("ok")

SpecBlocked == InitBurst /\ [][NextBlocked]_vars

\* Once unblocked, the consumer goroutine keeps running.
FairBlocked ==
    SpecBlocked /\ WF_vars(BurstOver /\ Receive) /\ WF_vars(LogRequest("ok"))

\* One client connection: exchanges come one after the other, each at its
\* own reading of the clock and answered alike, recording is on, the store
\* may fail an insert, and there are requests enough for records to lie
\* behind a failed one.
NextConsumer ==
    \/ \E r \in {ReqGet, ReqGzipPost} :
          nreq < MaxRequests + MaxInsertFailures /\ ServeHTTP(1, r, clock + 1)
    \/ ModifyResponse(1, RespGzip)
    \/ Receive
    \/ \E outcome \in InsertOutcomes :
          (outcome # "ok" => InsertFailures < MaxInsertFailures) /\ LogRequest(outcome)

SpecConsumer == InitBurst /\ [][NextConsumer]_vars

\* The consumer goroutine keeps running: a receive that is possible happens,
\* and LogRequest returns.
FairConsumer == SpecConsumer /\ WF_vars(Receive) /\ WF_vars(LogRequest("ok"))

\* A switch while exchanges are in flight: the requests arrive before the
\* recording routes are called for the first time, so every exchange begins
\* under the recording state the process started with; the responses arrive
\* before or after the switch.
NextToggle ==
    \/ \E s \in Slots, r \in {ReqGet, ReqGzipPost} :
          nadmin = 0 /\ nreq < MaxRequests /\ ServeHTTP(s, r, clock + 1)
    \/ \E s \in Slots : \E resp \in UpstreamAnswers(clientReq[s]) : ModifyResponse(s, resp)
    \/ Receive
    \/ LogRequest("ok")
    \/ nadmin < MaxAdminCalls /\ startRecordingHandler("POST")
    \/ nadmin < MaxAdminCalls /\ stopRecordingHandler("POST")

SpecToggle == Init /\ [][NextToggle]_vars

\* Start-up: the process is started, up to MaxRuns times, on a store file left
\* by earlier runs, and answers detail requests once it serves.

\* No run of InitDB yet.
NoMigration ==
    [run |-> 0, previous |-> <<>>, before |-> {}, alters |-> <<>>,
     committed |-> FALSE, fatal |-> "", wal |-> FALSE]

\* Rows as the previous version wrote them.
OldRows ==
    <<OldRowOf(CapturedExchange(1, ReqGet, RespPlain), 1),
      OldRowOf(CapturedExchange(2, ReqGzipPost, RespGzip), 2)>>

\* The store files the process may be started on: none yet, the table of the
\* previous version with any of the added columns already there and the rows
\* that version wrote, or a store this version has written to as well.
Stores ==
    {[columns |-> {}, rows |-> <<>>]}
    \cup {[columns |-> BaseColumns \cup S, rows |-> SubSeq(OldRows, 1, n)] :
            S \in SUBSET {AddedColumns[i] : i \in 1..Len(AddedColumns)},
            n \in 0..Len(OldRows)}
    \cup {[columns |-> AllColumns,
           rows |-> Append(OldRows,
                       [RowOf(CapturedExchange(3, ReqGet, RespPlain)) EXCEPT !.ID = 3])]}

InitStartup ==
    /\ InitMemory(DefaultRecordOnStart)
    /\ proc = "down"
    /\ migration = NoMigration
    /\ adminResp = NoAdminCall
    /\ nread = 0
    /\ call = NoCall
    /\ target = DefaultTarget
    /\ \E store \in Stores : columns = store.columns /\ db = store.rows

DetailIds == {"1", "3", "4", "abc"}

NextStartup ==
    \/ \E outcome \in InitOutcomes : migration.run < MaxRuns /\ InitDB(outcome)
    \/ Terminate
    \/ \E idStr \in DetailIds : nread < MaxReads /\ getRequestDetail(idStr)

SpecStartup == InitStartup /\ [][NextStartup]_vars

\* The classifier on its own: isTextData is applied to one body and one
\* declared media type.
isTextDataCall ==
    /\ call.fn = "isTextData"
    /\ ~call.done
    /\ call' = [call EXCEPT !.done = TRUE,
                            !.ret = isTextData(call.data, call.contentType)]
    /\ UNCHANGED <<proxyVars, proc, columns, migration, adminResp, nread, target, recordOnStart>>

InitClassify ==
    /\ InitMemory(DefaultRecordOnStart)
    /\ db = <<>>
    /\ proc = "serving"
    /\ columns = AllColumns
    /\ migration = FreshMigration
    /\ adminResp = NoAdminCall
    /\ nread = 0
    /\ target = DefaultTarget
    /\ \E data \in Samples, contentType \in MediaTypes :
          call = [fn |-> "isTextData", data |-> data, contentType |-> contentType,
                  done |-> FALSE, ret |-> FALSE]

NextClassify == isTextDataCall

SpecClassify == InitClassify /\ [][NextClassify]_vars

\* The list on its own: the process serves a store that does not change
\* while it is listed.

\* Row i of a listed store.  Neighbouring rows were inserted in the reverse
\* order of their timestamps.
StoredRow(i) ==
    [RowOf(CapturedExchange(IF i % 2 = 1 THEN i + 1 ELSE i - 1,
                            IF i % 2 = 1 THEN ReqGet ELSE ReqGzipPost,
                            IF i % 3 = 0 THEN RespGzip ELSE RespPlain))
        EXCEPT !.ID = i]

ListedStores == {[i \in 1..n |-> StoredRow(i)] : n \in {0, 4, MaxRows}}

InitList ==
    /\ InitMemory(DefaultRecordOnStart)
    /\ proc = "serving"
    /\ columns = AllColumns
    /\ migration = FreshMigration
    /\ adminResp = NoAdminCall
    /\ nread = 0
    /\ call = NoCall
    /\ target = DefaultTarget
    /\ db \in ListedStores

Pages == {"3", "abc"}

PageSizes == {"", "0", "50", "100", "101", "abc"}

URLFilters == {"", "_B"}

StartDates == {"", "2024-01-02"}

EndDates == {"", "2024-01-02"}

NextList ==
    \E pageStr \in Pages, pageSizeStr \in PageSizes, urlFilter \in URLFilters,
       startDate \in StartDates, endDate \in EndDates :
        getRequests(pageStr, pageSizeStr, urlFilter, startDate, endDate)

SpecList == InitList /\ [][NextList]_vars

\* Replays on their own: the process serves, and /api/replay is called with
\* URLs of every form against a target with and without a path.

\* An answer without a Content-Type whose body is printable text.
RespUntyped ==
    [status |-> 200, header |-> ("Content-Length" :> <<"2">>), body |-> <<79, 75>>,
     readErr |-> FALSE]

\* A spreadsheet: the media type holds "xml", the body is a zip archive.
RespSheet ==
    [status |-> 200,
     header |-> ("Content-Type" :>
                   <<"application/vnd.openxmlformats-officedocument.spreadsheetml.sheet">>),
     body |-> <<80, 75, 3, 4, 0, 0>>, readErr |-> FALSE]

ReplayOutcomes ==
    {[reached |-> FALSE, resp |-> NoUpstreamResponse]}
    \cup {[reached |-> TRUE, resp |-> resp] :
            resp \in {RespPlain, RespGzip, RespBadGzip, RespReadErr, RespUntyped,
                      RespSheet, RespNever}}

Targets ==
    {"http://api.example.com", "http://api.example.com/v1/svc?k=1",
     "http://api.example.com:8080/v2/"}

ReplayURLs ==
    {"/foo?q=1", "/a/./b/../c", "foo", "../x?y=2", "", "?q=2",
     "//other.example.org/p", "https://other.example.org/p?x=1",
     "http://other.example.org/a/../b", "HTTP://other.example.org", "mailto:ops",
     ":foo"}

NoReplayData ==
    [valid |-> FALSE, Method |-> "", URL |-> "", Headers |-> NoHeaders, Body |-> <<>>]

ReplayPayloads ==
    {NoReplayData}
    \cup {[valid |-> TRUE, Method |-> "GET", URL |-> u,
           Headers |-> ("Accept" :> <<"text/html", "*/*">>), Body |-> <<>>] :
            u \in ReplayURLs}
    \cup {[valid |-> TRUE, Method |-> m, URL |-> "/foo?q=1", Headers |-> NoHeaders,
           Body |-> <<123, 125>>] : m \in {"", "BAD METHOD"}}

\* The replay of a stored GET.
AdminReplays ==
    {[valid |-> TRUE, Method |-> "GET", URL |-> "/foo?q=1", Headers |-> NoHeaders,
      Body |-> <<>>]}

InitReplay ==
    /\ InitMemory(DefaultRecordOnStart)
    /\ db = <<>>
    /\ proc = "serving"
    /\ columns = AllColumns
    /\ migration = FreshMigration
    /\ adminResp = NoAdminCall
    /\ nread = 0
    /\ call = NoCall
    /\ target \in Targets

\* Every payload is replayed against an upstream that answers and one that
\* cannot be reached, and one payload against every upstream.
ReplayCalls ==
    {[method |-> "POST", replayData |-> d, reached |-> TRUE, resp |-> r] :
        d \in ReplayPayloads, r \in {RespPlain, RespGzip}}
    \cup {[method |-> "POST", replayData |-> d, reached |-> FALSE,
            resp |-> NoUpstreamResponse] : d \in ReplayPayloads}
    \cup {[method |-> "POST", replayData |-> d, reached |-> o.reached, resp |-> o.resp] :
            d \in AdminReplays, o \in ReplayOutcomes}
    \cup {[method |-> "GET", replayData |-> d, reached |-> TRUE, resp |-> RespPlain] :
            d \in AdminReplays}

NextReplay ==
    \E c \in ReplayCalls :
        nread < MaxReplays /\ replayRequest(c.method, c.replayData, c.reached, c.resp)

SpecReplay == InitReplay /\ [][NextReplay]_vars

\* The admin listener keeps serving: a call that can be made is made.
FairReplay == SpecReplay /\ WF_vars(NextReplay)

\* Replays while the proxy works: exchanges are proxied on one connection and
\* stored, recording is switched, and /api/replay is called at any point in
\* between, with a body that does not decode or the replay of a stored GET,
\* against every upstream.
NextReplayLive ==
    \/ nreq < MaxRequests /\ ServeHTTP(1, ReqGet, clock + 1)
    \/ ModifyResponse(1, RespPlain)
    \/ Receive
    \/ LogRequest("ok")
    \/ nadmin < MaxAdminCalls /\ stopRecordingHandler("POST")
    \/ \E replayData \in AdminReplays \cup {NoReplayData}, o \in ReplayOutcomes :
          nread < MaxReplays /\ replayRequest("POST", replayData, o.reached, o.resp)
    \/ \E replayData \in AdminReplays :
          nread < MaxReplays /\ replayRequest("GET", replayData, TRUE, RespPlain)

SpecReplayLive == InitBurst /\ [][NextReplayLive]_vars

\* The export on its own: the process serves a store of up to MaxExported
\* exchanges, captured in any order of their timestamps, that does not change
\* while it is exported.

\* A JSON answer in UTF-8 with a letter outside ASCII.
RespUTF8 ==
    [status |-> 200,
     header |-> ("Content-Type" :> <<"application/json">>) @@ ("Content-Length" :> <<"9">>),
     body |-> <<123, 34, 97, 34, 58, 34, 195, 169, 34, 125>>, readErr |-> FALSE]

ExportedExchanges ==
    {<<ReqGet, RespPlain>>, <<ReqGzipPost, RespGzip>>, <<ReqBadGzip, RespBadGzip>>,
     <<ReqGet, RespUTF8>>}

ExportedStores ==
    UNION {{[i \in 1..n |->
                [RowOf(CapturedExchange(at[i], ex[i][1], ex[i][2])) EXCEPT !.ID = i]] :
              ex \in [1..n -> ExportedExchanges], at \in [1..n -> 1..2]} :
           n \in 0..MaxExported}

InitExport ==
    /\ InitMemory(DefaultRecordOnStart)
    /\ proc = "serving"
    /\ columns = AllColumns
    /\ migration = FreshMigration
    /\ adminResp = NoAdminCall
    /\ nread = 0
    /\ call = NoCall
    /\ target = DefaultTarget
    /\ db \in ExportedStores

NextExport == \E method \in Methods : nread < MaxReads /\ exportHARHandler(method)

SpecExport == InitExport /\ [][NextExport]_vars

\* The whole process: exchanges are proxied, one at a time, and stored while
\* the admin listener is called on every route; the recording routes are
\* called with and without the session cookie.
SessionTokens == {"valid_token", ""}

AdminIds == {"1", "abc"}

NextAdmin ==
    \/ nreq < MaxRequests /\ ServeHTTP(1, ReqGet, clock + 1)
    \/ ModifyResponse(1, RespPlain)
    \/ Receive
    \/ LogRequest("ok")
    \/ \E c \in SessionTokens, m \in Methods :
          nadmin < MaxAdminCalls /\ authMiddleware(c, startRecordingHandler(m))
    \/ \E c \in SessionTokens, m \in Methods :
          nadmin < MaxAdminCalls /\ authMiddleware(c, stopRecordingHandler(m))
    \/ \E m \in Methods : authMiddleware("valid_token", getRecordingStatusHandler(m))
    \/ authMiddleware("valid_token", getRequests("", "", "", "", ""))
    \/ \E idStr \in AdminIds :
          nread < MaxReads /\ authMiddleware("valid_token", getRequestDetail(idStr))
    \/ \E idStr \in AdminIds :
          nread < MaxReads /\ authMiddleware("valid_token", getRequestBodyHandler(idStr))
    \/ \E idStr \in AdminIds :
          nread < MaxReads /\ authMiddleware("valid_token", getResponseBodyHandler(idStr))
    \/ nread < MaxReads /\ authMiddleware("valid_token", exportHARHandler("GET"))
    \/ \E replayData \in AdminReplays :
          nread < MaxReads
          /\ authMiddleware("valid_token",
                            replayRequest("POST", replayData, TRUE, RespUntyped))

SpecAdmin == Init /\ [][NextAdmin]_vars

\* ---------------------------------------------------------------- claims

\* The values of header k in h, none when the name is absent.
ValuesOf(h, k) == IF k \in DOMAIN h THEN h[k] ELSE <<>>

\* The response declares Content-Encoding: gzip.
GzipDeclared(resp) == HeaderGet(resp.header, "Content-Encoding") = "gzip"

\* The response declares gzip and its body inflates / does not inflate.
GzipInflates(resp) == GzipDeclared(resp) /\ ~decompressGzip(resp.body).err

GzipFails(resp) == GzipDeclared(resp) /\ decompressGzip(resp.body).err

\* The elements of a sequence.
Range(seq) == {seq[i] : i \in 1..Len(seq)}

\* The drop events in the operational log.
Drops(bag) == CopiesIn("Request log channel is full, dropping log entry.", bag)

C3_RequestBodyForwarded ==
    \A s \in Slots :
        pc[s] \in {"forwarded", "responded", "aborted"} =>
            /\ upstreamReq[s].body = clientReq[s].body
            /\ rBody[s] = [data |-> clientReq[s].body, pos |-> 0]

\* A gzip request was forwarded as sent while its logged body was inflated,
\* and another whose body does not inflate was forwarded as sent.
C3_Witness ==
    \E s, u \in Slots :
        /\ pc[s] = "forwarded" /\ GzipInflates(clientReq[s])
        /\ reqLog[s].RequestBody # clientReq[s].body
        /\ upstreamReq[s].body = clientReq[s].body
        /\ pc[u] = "forwarded" /\ GzipFails(clientReq[u])
        /\ upstreamReq[u].body # <<>>

\* The headers stored in the record of handler s, parsed back.
StoredResponseHeaders(s) == JSONToHeaders(reqLog[s].ResponseHeaders.members)

\* C4 as stated: after a successful inflation the stored headers have no
\* Content-Encoding and their Content-Length is the length of the stored body.
C4_Original ==
    \A s \in Slots :
        (pc[s] = "responded" /\ GzipInflates(upstreamResp[s])) =>
            /\ "Content-Encoding" \notin DOMAIN StoredResponseHeaders(s)
            /\ ValuesOf(StoredResponseHeaders(s), "Content-Length")
                  = <<ToString(Len(reqLog[s].ResponseBody))>>

\* C4 as amended: after a successful inflation the record stores the inflated
\* body together with the headers exactly as the upstream sent them, still
\* with Content-Encoding: gzip and the upstream's Content-Length; the record
\* the channel accepts is this one.
C4_StoredHeaders ==
    \A s \in Slots :
        (pc[s] = "responded" /\ GzipInflates(upstreamResp[s])) =>
            /\ reqLog[s].ResponseBody = decompressGzip(upstreamResp[s].body).out
            /\ reqLog[s].ResponseHeaders.text
            /\ StoredResponseHeaders(s) = upstreamResp[s].header
            /\ HeaderGet(StoredResponseHeaders(s), "Content-Encoding") = "gzip"
            /\ enq[s] = "sent" => reqLog[s] \in Range(accepted)

\* A record with an inflated body and the upstream's Content-Length, which
\* differs from the stored body's length, has been inserted.
C4_Witness ==
    \E s \in Slots :
        /\ pc[s] = "responded" /\ enq[s] = "sent"
        /\ GzipInflates(upstreamResp[s])
        /\ HeaderGet(StoredResponseHeaders(s), "Content-Length")
              # ToString(Len(reqLog[s].ResponseBody))
        /\ \E i \in 1..Len(db) :
              /\ db[i].ResponseBody = reqLog[s].ResponseBody
              /\ db[i].ResponseHeaders = reqLog[s].ResponseHeaders

\* C5: when a response that declares gzip is read but does not inflate, the
\* exchange completes: the client gets the upstream's status, headers and
\* bytes unchanged, and with recording on and room in the channel the record
\* appended to it holds the bytes as read and the headers as received.
C5_GzipFailure ==
    [][\A s \in Slots :
          (/\ pc[s] = "forwarded" /\ pc'[s] # "forwarded"
           /\ ~upstreamResp'[s].readErr
           /\ GzipFails(upstreamResp'[s])) =>
              /\ pc'[s] = "responded"
              /\ clientResp'[s] = [status |-> upstreamResp'[s].status,
                                   header |-> upstreamResp'[s].header,
                                   body |-> upstreamResp'[s].body]
              /\ (IsRecording /\ Len(requestLogChan) < QueueCap) =>
                    /\ Len(requestLogChan') = Len(requestLogChan) + 1
                    /\ requestLogChan'[Len(requestLogChan')].ResponseBody
                          = upstreamResp'[s].body
                    /\ requestLogChan'[Len(requestLogChan')].ResponseHeaders
                          = HeadersToJSON(upstreamResp'[s].header)
                    /\ requestLogChan'[Len(requestLogChan')].StatusCode
                          = upstreamResp'[s].status
      ]_vars

\* A response whose gzip body does not inflate was delivered as sent and its
\* record, body still compressed, was accepted by the channel.
C5_Witness ==
    \E s \in Slots :
        /\ pc[s] = "responded" /\ enq[s] = "sent"
        /\ GzipFails(upstreamResp[s])
        /\ clientResp[s].body = upstreamResp[s].body
        /\ clientResp[s].header = upstreamResp[s].header
        /\ reqLog[s].ResponseBody = upstreamResp[s].body
        /\ reqLog[s] \in Range(accepted)

\* The request fields of record rec are those of request rq.
RequestFacetOf(rec, rq) ==
    /\ rec.Method = rq.method
    /\ rec.URL = rq.url
    /\ rec.RequestHeaders = HeadersToJSON(rq.header)
    /\ rec.RequestBody = IF GzipInflates(rq) THEN decompressGzip(rq.body).out ELSE rq.body

\* The response fields of record rec are those of response up.
ResponseFacetOf(rec, up) ==
    /\ rec.StatusCode = up.status
    /\ rec.ResponseHeaders = HeadersToJSON(up.header)
    /\ rec.ResponseBody = IF GzipInflates(up) THEN decompressGzip(up.body).out ELSE up.body

\* C6: the step in which an exchange's response is read offers at most one
\* record to the channel, and exactly one when recording is on and the channel
\* has room; the record pairs the request and the response of that exchange;
\* and no other step offers a record.
C6_OneRecordPerExchange ==
    [][/\ \A s \in Slots :
             (pc[s] = "forwarded" /\ pc'[s] = "responded") =>
                /\ Len(accepted') <= Len(accepted) + 1
                /\ (IsRecording /\ Len(requestLogChan) < QueueCap)
                      => Len(accepted') = Len(accepted) + 1
                /\ Len(accepted') = Len(accepted) + 1 =>
                      /\ RequestFacetOf(accepted'[Len(accepted')], clientReq[s])
                      /\ ResponseFacetOf(accepted'[Len(accepted')], upstreamResp'[s])
                      /\ requestLogChan'
                            = Append(requestLogChan, accepted'[Len(accepted')])
       /\ accepted' # accepted =>
             /\ Cardinality({s \in Slots : pc[s] = "forwarded" /\ pc'[s] = "responded"}) = 1
             /\ SubSeq(accepted', 1, Len(accepted)) = accepted
      ]_vars

\* Two exchanges with different requests overlapped: the later one has
\* completed and been recorded while the earlier one is still in flight.
C6_Witness ==
    /\ pc[1] = "forwarded"
    /\ pc[2] = "responded" /\ enq[2] = "sent"
    /\ clientReq[1].url # clientReq[2].url
    /\ Len(accepted) = 1
    /\ RequestFacetOf(accepted[1], clientReq[2])

\* C7: the channel never holds more than its capacity, and the step in which
\* an exchange's response is read while recording is on and the channel is
\* full completes the exchange: the channel is unchanged, exactly one drop
\* event is logged, and the client gets the upstream's status and body (the
\* inflated body when gzip inflates).
C7_DropWhenFull ==
    /\ [](Len(requestLogChan) <= QueueCap)
    /\ [][\A s \in Slots :
             (/\ pc[s] = "forwarded" /\ pc'[s] # "forwarded"
              /\ ~upstreamResp'[s].readErr
              /\ IsRecording /\ Len(requestLogChan) = QueueCap) =>
                 /\ requestLogChan' = requestLogChan
                 /\ accepted' = accepted
                 /\ Drops(logged') = Drops(logged) + 1
                 /\ pc'[s] = "responded"
                 /\ clientResp'[s].status = upstreamResp'[s].status
                 /\ clientResp'[s].body =
                       IF GzipInflates(upstreamResp'[s])
                       THEN decompressGzip(upstreamResp'[s].body).out
                       ELSE upstreamResp'[s].body
         ]_vars

\* The channel is full and an exchange whose gzip response inflated has been
\* answered while its record was dropped.
C7_Witness ==
    /\ Len(requestLogChan) = QueueCap
    /\ Drops(logged) >= 1
    /\ \E s \in Slots :
          /\ pc[s] = "responded" /\ enq[s] = "dropped"
          /\ GzipInflates(upstreamResp[s])
          /\ clientResp[s].status = upstreamResp[s].status

\* All BurstSize requests of the burst have been answered and the consumer has
\* not received a record yet.
BurstDoneConsumerBlocked ==
    /\ nreq = BurstSize
    /\ \A s \in Slots : pc[s] # "forwarded"
    /\ handed = <<>>

InsertsReturned == Len(db) + InsertFailures

\* C9: the records passed to LogRequest, followed by those still pending, are
\* the records the channel accepted, in the order it accepted them; LogRequest
\* is called once per record passed, on that record; and every accepted record
\* is eventually passed to it.
C9_FifoExactlyOnce ==
    /\ [](/\ handed \o requestLogChan = accepted
          /\ consumer.at = "log" =>
                (handed # <<>> /\ consumer.entry = handed[Len(handed)])
          /\ InsertsReturned + (IF consumer.at = "log" THEN 1 ELSE 0) = Len(handed))
    /\ \A n \in 1..MaxRequests : (Len(accepted) >= n) ~> (Len(handed) >= n)

\* Two different records were accepted and both have been passed to
\* LogRequest, in the order they were accepted, and stored.
C9_Witness ==
    /\ Len(handed) = 2
    /\ handed[1] # handed[2]
    /\ handed = accepted
    /\ Len(db) = 2
    /\ \A s \in Slots : pc[s] = "responded" /\ enq[s] = "sent"

\* C10: the step that completes an exchange while recording is off leaves
\* the channel and the store unchanged and logs no drop event; if the response
\* was read, the client gets the upstream's status.
C10_RecordingOff ==
    [][\A s \in Slots :
          (pc[s] = "forwarded" /\ pc'[s] # "forwarded" /\ ~IsRecording) =>
             /\ requestLogChan' = requestLogChan
             /\ accepted' = accepted
             /\ db' = db
             /\ Drops(logged') = Drops(logged)
             /\ ~upstreamResp'[s].readErr =>
                   /\ pc'[s] = "responded"
                   /\ clientResp'[s].status = upstreamResp'[s].status
      ]_vars

\* An exchange completed while recording was off, after an earlier record had
\* been stored: nothing of it is pending or stored.
C10_Witness ==
    \E s \in Slots :
        /\ pc[s] = "responded" /\ enq[s] = "off"
        /\ ~IsRecording
        /\ requestLogChan = <<>>
        /\ Len(db) = 1
        /\ ~ResponseFacetOf(db[1], upstreamResp[s])

\* The columns the table has when the migration transaction begins: the
\* table is created first when the store has none.
PreMigration(before) == IF before = {} THEN BaseColumns ELSE before

\* C14: a committed run of InitDB leaves the table with all its columns,
\* whichever of the added columns it started with, and a run of InitDB on a
\* store whose previous run committed executes no ALTER statement and leaves
\* the column set as it was.
C14_MigrationIdempotent ==
    /\ [](migration.committed => columns = AllColumns)
    /\ [][(migration.committed /\ migration'.run # migration.run) =>
              (migration'.alters = <<>> /\ columns' = columns)]_vars

\* A second run has committed on the store a first run had added all four
\* columns to.
C14_Witness ==
    /\ migration.run = 2
    /\ migration.previous = AddedColumns
    /\ migration.committed
    /\ migration.alters = <<>>
    /\ migration.before = AllColumns
    /\ proc = "serving"

\* C15: a run of InitDB commits only with every column present; a run in
\* which the migration fails (a table_info query, an ALTER or the commit)
\* leaves the table with the columns it had before the migration, also when
\* earlier additions of the same run had succeeded, and ends the process;
\* and no request is answered while the process is not serving.
C15_MigrationAtomic ==
    /\ [][migration'.run # migration.run =>
             /\ migration'.committed => columns' = AllColumns
             /\ migration'.fatal \in {"Failed to query table info", "Failed to add column",
                                      "Failed to commit schema migration"} =>
                   /\ columns' = PreMigration(columns)
                   /\ proc' = "exited"
                   /\ ~migration'.committed
         ]_vars
    /\ [][proc # "serving" => adminResp' = adminResp]_vars

\* An ALTER failed after two earlier ones of the same run had succeeded: the
\* process has exited and the table has none of them.
C15_Witness ==
    /\ proc = "exited"
    /\ migration.fatal = "Failed to add column"
    /\ Len(migration.alters) = 3
    /\ columns = BaseColumns
    /\ migration.before = BaseColumns

\* The row the last detail call asked for was written without the added
\* columns.
DetailOfOldRow ==
    /\ adminResp.op = "detail"
    /\ ~Atoi(adminResp.id).err
    /\ \E i \in RowsWithID(db, Atoi(adminResp.id).n) :
          "RequestBodySize" \notin DOMAIN db[i]

\* C16 as stated: once InitDB has migrated a store of the previous version,
\* the detail view of a row that version wrote succeeds and reports the added
\* sizes as zero and the added flags as false.
C16_OldRowDetail ==
    (proc = "serving" /\ migration.committed /\ DetailOfOldRow) =>
        /\ adminResp.status = 200
        /\ adminResp.body.RequestBodySize = 0
        /\ adminResp.body.ResponseBodySize = 0
        /\ ~adminResp.body.IsRequestBodyText
        /\ ~adminResp.body.IsResponseBodyText

\* The Content-Type among the headers stored in a row, "" when there is none.
StoredContentType(headersJSON) ==
    IF ~headersJSON.text THEN ""
    ELSE LET named == {i \in 1..Len(headersJSON.members) :
                          headersJSON.members[i][1] = "Content-Type"}
         IN  IF named = {} THEN ""
             ELSE headersJSON.members[CHOOSE i \in named : TRUE][2][1]

\* C13: in every stored row the sizes are the lengths of the stored bodies and
\* each text flag is the classifier's verdict on the stored body under the
\* Content-Type of the stored headers of that facet; and the step that stores
\* a row takes its bodies and headers from the record it was called with and
\* nothing else of it into these four fields.
C13_DerivedFields ==
    /\ [](\A i \in 1..Len(db) :
            /\ db[i].RequestBodySize = Len(db[i].RequestBody)
            /\ db[i].ResponseBodySize = Len(db[i].ResponseBody)
            /\ db[i].IsRequestBodyText
                  = isTextData(db[i].RequestBody, StoredContentType(db[i].RequestHeaders))
            /\ db[i].IsResponseBodyText
                  = isTextData(db[i].ResponseBody, StoredContentType(db[i].ResponseHeaders)))
    /\ [][Len(db') = Len(db) + 1 =>
             /\ db'[Len(db')].RequestBody = consumer.entry.RequestBody
             /\ db'[Len(db')].ResponseBody = consumer.entry.ResponseBody
             /\ db'[Len(db')].RequestHeaders = consumer.entry.RequestHeaders
             /\ db'[Len(db')].ResponseHeaders = consumer.entry.ResponseHeaders
             /\ consumer.entry.RequestBodySize = 0
             /\ consumer.entry.ResponseBodySize = 0
         ]_vars

\* A row is stored whose request body is two bytes of JSON, flagged text, and
\* whose response body is three bytes of an image, flagged binary; the record
\* it came from carried size 0 and flag false for both.
C13_Witness ==
    \E i \in 1..Len(db) :
        /\ db[i].RequestBodySize = 2 /\ db[i].IsRequestBodyText
        /\ db[i].ResponseBodySize = 3 /\ ~db[i].IsResponseBodyText
        /\ \E j \in 1..Len(handed) :
              /\ handed[j].RequestBody = db[i].RequestBody
              /\ handed[j].ResponseBody = db[i].ResponseBody
              /\ handed[j].ResponseBodySize = 0
              /\ ~handed[j].IsRequestBodyText

\* The media types the classifier takes for text whatever the data: those
\* that start with text/ and those that name application/json,
\* application/xml, application/javascript or application/xhtml+xml.
DeclaredTextual(contentType) ==
    \/ HasPrefix(contentType, "text/")
    \/ \E named \in {"application/json", "application/xml",
                     "application/javascript", "application/xhtml+xml"} :
          Contains(contentType, named)

\* The bytes of the sample, at most the first 512, that are tab, line feed,
\* carriage return or in [0x20, 0x7E].
PrintableInSample(data) ==
    Len(SelectSeq(SubSeq(data, 1, min(Len(data), 512)),
                  LAMBDA b : b \in {9, 10, 13} \cup (32..126)))

\* C12: isTextData answers text for a declared textual media type whatever
\* the data, otherwise text for empty data, otherwise text exactly when the
\* printable bytes of the sample are strictly more than 70% of the sample.
C12_Classifier ==
    (call.fn = "isTextData" /\ call.done) =>
        /\ DeclaredTextual(call.contentType) => call.ret
        /\ (~DeclaredTextual(call.contentType) /\ call.data = <<>>) => call.ret
        /\ (~DeclaredTextual(call.contentType) /\ call.data # <<>>) =>
              (call.ret <=> 100 * PrintableInSample(call.data)
                               > 70 * min(Len(call.data), 512))

\* A body of ten bytes, seven of them printable, declared with a media type
\* outside the textual families, has been classified binary.
C12_Witness ==
    /\ call.fn = "isTextData" /\ call.done
    /\ ~DeclaredTextual(call.contentType)
    /\ Len(call.data) = 10
    /\ PrintableInSample(call.data) = 7
    /\ ~call.ret

\* The least number of pages of the given size that hold the given count.
Ceiling(count, size) ==
    CHOOSE k \in 0..count : k * size >= count /\ (k > 0 => (k - 1) * size < count)

\* C17: whatever the page and page size asked for, the total_count of a list
\* answer is the number of stored rows that match its URL and date filters,
\* and its total_pages is that count divided by the page size used, rounded up.
C17_Totals ==
    adminResp.op = "list" =>
        /\ adminResp.body.total_count
             = Cardinality({i \in 1..Len(db) :
                              Matches(db[i], adminResp.query.url,
                                      adminResp.query.start_date,
                                      adminResp.query.end_date)})
        /\ adminResp.body.total_pages
             = Ceiling(adminResp.body.total_count, adminResp.body.page_size)

\* A store of 120 rows has been listed by 50 without filters: 120 rows in 3
\* pages, the third page holding the 20 rows left.
C17_Witness ==
    /\ adminResp.op = "list"
    /\ adminResp.query.url = "" /\ adminResp.query.start_date = ""
    /\ adminResp.query.end_date = ""
    /\ adminResp.body.page = 3
    /\ adminResp.body.page_size = 50
    /\ adminResp.body.total_count = 120
    /\ adminResp.body.total_pages = 3
    /\ Len(adminResp.body.requests) = 20

\* C18 as stated: the page size used is the requested one brought into
\* [1,100] (100 for more, 1 for less), and 50 for an absent or unparseable one.
C18_Clamped ==
    adminResp.op = "list" =>
        LET asked == adminResp.query.page_size
        IN  adminResp.body.page_size =
                IF asked = "" \/ Atoi(asked).err THEN 50
                ELSE IF Atoi(asked).n > 100 THEN 100
                ELSE IF Atoi(asked).n < 1 THEN 1
                ELSE Atoi(asked).n

\* C18, amended: the page size used is the requested one when that is a
\* number in [1,100], and the default 50 in every other case (absent,
\* unparseable, above 100, below 1); it is never outside [1,100].
C18_PageSize ==
    adminResp.op = "list" =>
        LET asked == adminResp.query.page_size
            valid == asked # "" /\ ~Atoi(asked).err
                     /\ Atoi(asked).n >= 1 /\ Atoi(asked).n <= 100
        IN  /\ valid => adminResp.body.page_size = Atoi(asked).n
            /\ ~valid => adminResp.body.page_size = 50
            /\ adminResp.body.page_size \in 1..100
            /\ Len(adminResp.body.requests) <= adminResp.body.page_size

\* A list asked for with page_size=101 has been served 50 rows a page.
C18_Witness ==
    /\ adminResp.op = "list"
    /\ adminResp.query.page_size = "101"
    /\ adminResp.body.page_size = 50
    /\ Len(adminResp.body.requests) = 50

\* A replay call that got as far as resolving the URL it is sent to.
Resolved == adminResp.op = "replay" /\ "finalURL" \in DOMAIN adminResp

\* C19 as stated: an absolute URL (scheme and host) is used unchanged, and of
\* any other URL the path and query are placed on the target's scheme and host.
C19_AsIsOrOnTarget ==
    Resolved =>
        LET ref == Parse(adminResp.replayData.URL)
            t   == Parse(target)
        IN  adminResp.finalURL =
                IF ref.Scheme # "" /\ ref.Host # "" THEN adminResp.replayData.URL
                ELSE t.Scheme \o "://" \o t.Host \o ref.Path
                     \o (IF ref.RawQuery # "" THEN "?" \o ref.RawQuery ELSE "")

\* C19, amended: the URL a replay is sent to is the caller's URL resolved as a
\* reference against the target.  A URL with a scheme or a host keeps its
\* own host, path and query, takes the target's scheme if it has none, and
\* loses the dot segments of its path; its scheme is put in lower case.  Any
\* other URL goes to the target's scheme and host: with its own path if that
\* starts with a slash, with its path appended to the directory of the
\* target's path if it does not, dot segments removed either way, and with
\* its own query; with neither path nor query it gets the target's path and
\* query.
C19_Resolved ==
    Resolved =>
        LET ref == Parse(adminResp.replayData.URL)
            t   == Parse(target)
            f   == Parse(adminResp.finalURL)
            u   == adminResp.replayData.URL
        IN  /\ ~f.err
            /\ (ref.Scheme # "" \/ ref.Host # "") =>
                  /\ f.Scheme = IF ref.Scheme # "" THEN ToLower(ref.Scheme) ELSE t.Scheme
                  /\ f.Host = ref.Host /\ f.Opaque = ref.Opaque
                  /\ f.RawQuery = ref.RawQuery
                  /\ f.Path = resolvePath(ref.Path, "")
            /\ (ref.Scheme = "" /\ ref.Host = "") =>
                  /\ f.Scheme = t.Scheme /\ f.Host = t.Host
                  /\ HasPrefix(ref.Path, "/") =>
                        f.Path = resolvePath(ref.Path, "") /\ f.RawQuery = ref.RawQuery
                  /\ (ref.Path # "" /\ ~HasPrefix(ref.Path, "/")) =>
                        /\ f.Path = resolvePath(SubSeq(t.Path, 1, LastIndexOf(t.Path, "/"))
                                                \o ref.Path, "")
                        /\ f.RawQuery = ref.RawQuery
                  /\ (ref.Path = "" /\ ref.RawQuery # "") =>
                        f.Path = t.Path /\ f.RawQuery = ref.RawQuery
                  /\ (ref.Path = "" /\ ref.RawQuery = "") =>
                        f.Path = t.Path /\ f.RawQuery = t.RawQuery
            /\ (u = "/foo?q=1" /\ target = "http://api.example.com") =>
                  adminResp.finalURL = "http://api.example.com/foo?q=1"
            /\ u = "//other.example.org/p" =>
                  adminResp.finalURL = "http://other.example.org/p"
            /\ u = "http://other.example.org/a/../b" =>
                  adminResp.finalURL = "http://other.example.org/b"
            /\ u = "https://other.example.org/p?x=1" => adminResp.finalURL = u
            /\ (u = "foo" /\ target = "http://api.example.com/v1/svc?k=1") =>
                  adminResp.finalURL = "http://api.example.com/v1/foo"
            /\ "sent" \in DOMAIN adminResp => adminResp.sent.url = adminResp.finalURL

\* A replay of //other.example.org/p has been answered: it went to that host,
\* not to the target's.
C19_Witness ==
    /\ Resolved
    /\ adminResp.status = 200
    /\ adminResp.replayData.URL = "//other.example.org/p"
    /\ adminResp.sent.url = "http://other.example.org/p"
    /\ Parse(target).Host = "api.example.com"

\* C20 as stated: the replay takes the answer's body for text exactly when
\* isTextData does, for the body as it stands after the gzip step and the
\* Content-Type of the answer, and returns it as it is when text and in
\* base64 otherwise.
C20_SameDecision ==
    (adminResp.op = "replay" /\ adminResp.status = 200) =>
        LET text == isTextData(adminResp.bodyBytes, adminResp.contentType)
        IN  /\ adminResp.isText = text
            /\ adminResp.body.body = IF text THEN adminResp.bodyBytes
                                     ELSE EncodeToString(adminResp.bodyBytes)

\* C11: the recording state starts as the record-on-start option, on by
\* default, says; a step changes it only if it is a POST to start-recording
\* or to stop-recording that was answered 200, after which it is on,
\* respectively off; every other step - a call of either route with another
\* method or without the session, a status query, a proxied exchange, an
\* insert, a replay, a list, detail, body or export read - leaves it as it was.
C11_RecordingState ==
    /\ DefaultRecordOnStart
    /\ [](nadmin = 0 => IsRecording = recordOnStart)
    /\ [][recordOnStart' = recordOnStart]_vars
    /\ [][nadmin' = nadmin => IsRecording' = IsRecording]_vars
    /\ [][nadmin' # nadmin =>
            /\ adminResp'.op \in {"start-recording", "stop-recording"}
            /\ adminResp'.method = "POST" /\ adminResp'.status = 200
            /\ IsRecording' = (adminResp'.op = "start-recording")]_vars
    /\ [](adminResp.op \in {"start-recording", "stop-recording"} =>
            (adminResp.status = 200 <=> adminResp.method = "POST"))

\* The process started recording and stored an exchange; a POST to
\* stop-recording turned recording off, and a later status query, answered
\* "stopped", left it off.
C11_Witness ==
    /\ recordOnStart /\ ~IsRecording
    /\ nadmin = 1
    /\ Len(db) > 0
    /\ adminResp.op = "recording-status" /\ adminResp.status = 200
    /\ adminResp.body = "stopped"

\* The messages of the error answers of replayRequest.
ReplayErrors ==
    {"Method not allowed", "Invalid request body", "Invalid URL in replay data",
     "Failed to create replay request", "Failed to execute replayed request",
     "Failed to read replayed response body"}

\* The call failed to parse the URL, to construct the request, to reach the
\* upstream or to read its body.
ReplayFailed ==
    /\ adminResp.op = "replay" /\ adminResp.method = "POST" /\ adminResp.replayData.valid
    /\ \/ Parse(adminResp.replayData.URL).err
       \/ Contains(adminResp.replayData.Method, " ")
       \/ "reached" \in DOMAIN adminResp /\ ~adminResp.reached
       \/ "upstream" \in DOMAIN adminResp /\ adminResp.upstream.readErr

\* The body of the upstream answer as it is shown: inflated when it is
\* declared gzip and inflates.
ShownBody(up) == IF GzipInflates(up) THEN decompressGzip(up.body).out ELSE up.body

\* C21: a replay call that returns gives either status 200 with a result
\* object whose status code, headers and body are those of the upstream
\* answer (the body inflated, as a JSON string or in base64), or an error
\* status with a message and no result object; a call that failed to parse
\* the URL, to construct the request, to reach the upstream or to read its
\* body gives an error status, never the 200.
C21_AllOrNothing ==
    (adminResp.op = "replay" /\ adminResp.status # 0) =>
        /\ adminResp.status \in {200, 400, 405, 500}
        /\ ReplayFailed => adminResp.status \in {400, 500}
        /\ adminResp.status # 200 => adminResp.body \in ReplayErrors
        /\ adminResp.status = 200 =>
              LET up == adminResp.upstream
              IN  /\ ~up.readErr
                  /\ DOMAIN adminResp.body = {"statusCode", "headers", "body"}
                  /\ adminResp.body.statusCode = up.status
                  /\ adminResp.body.headers = up.header
                  /\ IF adminResp.isText
                     THEN adminResp.body.body = JSONString(ShownBody(up))
                     ELSE adminResp.body.body = EncodeToString(ShownBody(up))

\* The upstream was reached and the read of its gzip answer failed half way:
\* the call was answered 500 with a message.
C21_Witness ==
    /\ adminResp.op = "replay" /\ adminResp.method = "POST"
    /\ "upstream" \in DOMAIN adminResp /\ adminResp.upstream = RespReadErr
    /\ adminResp.status = 500
    /\ adminResp.body = "Failed to read replayed response body"

\* C22 as stated: every replay call returns - the call numbered n, once it
\* waits for its upstream, is answered with an error at some later time.
C22_ReplayReturns ==
    \A n \in 1..MaxReplays :
        (adminResp.op = "replay" /\ adminResp.serial = n /\ adminResp.status = 0)
            ~> (adminResp.op = "replay" /\ adminResp.serial = n /\ adminResp.status = 500)

\* The UTF-8 bytes of a sequence of runes.
RECURSIVE UTF8(_)
UTF8(runes) ==
    IF Len(runes) = 0 THEN <<>>
    ELSE LET r == runes[1]
         IN  (IF r < 128 THEN <<r>>
              ELSE IF r < 2048 THEN <<192 + (r \div 64), 128 + (r % 64)>>
              ELSE IF r < 65536
              THEN <<224 + (r \div 4096), 128 + ((r \div 64) % 64), 128 + (r % 64)>>
              ELSE <<240 + (r \div 262144), 128 + ((r \div 4096) % 64),
                     128 + ((r \div 64) % 64), 128 + (r % 64)>>)
             \o UTF8(Tail(runes))

\* The text of the entry's request.postData, empty when there is none.
PostDataText(entry) ==
    IF Len(entry.request.postData) = 0 THEN <<>> ELSE entry.request.postData[1].text

\* The entry has one name/value pair for each value of each header of h, and
\* no other.
PairPerValue(pairs, h) ==
    /\ \A name \in DOMAIN h : \A k \in 1..Len(h[name]) :
          Cardinality({pr \in pairs : pr[1] = name /\ pr[2] = k /\ pr[3] = h[name][k]}) = 1
    /\ \A pr \in pairs : pr[1] \in DOMAIN h /\ pr[2] \in 1..Len(h[pr[1]])

\* The entry is that of the stored row.
EntryOf(entry, row) ==
    /\ entry.request.method = row.Method
    /\ entry.request.url = row.URL
    /\ entry.response.status = row.StatusCode
    /\ entry.startedDateTime = row.Timestamp
    /\ UTF8(PostDataText(entry)) = row.RequestBody
    /\ UTF8(entry.response.content.text) = row.ResponseBody
    /\ PairPerValue(entry.request.headers, JSONToHeaders(row.RequestHeaders.members))
    /\ PairPerValue(entry.response.headers, JSONToHeaders(row.ResponseHeaders.members))
    /\ entry.time = 0
    /\ \A phase \in DOMAIN entry.timings : entry.timings[phase] = 0

\* C23 as stated: the export of a store has as many entries as the store has
\* rows, and the entries are those of the rows, one each: the row's method,
\* URL, status and timestamp, its bodies as the texts of postData and content,
\* a pair for each header value, zero time and timings.
C23_OneEntryPerExchange ==
    (adminResp.op = "export" /\ adminResp.status = 200) =>
        LET entries == adminResp.body.entries
        IN  /\ Len(entries) = Len(db)
            /\ \E p \in Permutations(1..Len(db)) :
                  \A i \in 1..Len(db) : EntryOf(entries[i], db[p[i]])

\* The records that were ever put on the channel, wait on it, are with the
\* consumer or are stored.
EverRecorded ==
    Range(accepted) \cup Range(requestLogChan) \cup Range(handed) \cup Range(db)
    \cup (IF consumer.at = "log" THEN {consumer.entry} ELSE {})

\* C24: a request whose body cannot be read is answered 500 and goes no
\* further: the step that receives it sends nothing to the upstream and
\* leaves the channel, the consumer and the store as they were, its slot is
\* never forwarded or enqueued from, and no record of the request's URL is
\* ever on the channel or in the store.
C24_RequestReadFailure ==
    /\ [][nreq' # nreq =>
            \A s \in Slots :
                (FreeSlot(s) /\ clientReq'[s].readErr) =>
                    /\ clientResp'[s].status = 500
                    /\ upstreamReq'[s] = NoRequest
                    /\ pc'[s] = "failed"
                    /\ UNCHANGED <<requestLogChan, accepted, consumer, handed, db>>]_vars
    /\ [](\A s \in Slots :
            clientReq[s].readErr =>
                /\ pc[s] = "failed" /\ enq[s] = "none"
                /\ clientResp[s].status = 500
                /\ upstreamReq[s] = NoRequest)
    /\ [](\A rec \in EverRecorded : \A r \in Requests : r.readErr => rec.URL # r.url)

\* While recording is on and another exchange has been stored, a request whose
\* body could not be read has been answered 500.
C24_Witness ==
    /\ IsRecording
    /\ Len(db) > 0
    /\ \E s \in Slots :
          /\ clientReq[s] = ReqReadErr
          /\ pc[s] = "failed"
          /\ clientResp[s].status = 500

\* C25: an exchange whose response body cannot be read is not recorded: the
\* step of ModifyResponse that fails to read leaves the channel, the list of
\* accepted records and the store as they were, whatever the recording state
\* and the room on the channel, nothing is enqueued for the slot, and no
\* record of such a response is ever on the channel or in the store.
C25_ResponseReadFailure ==
    /\ [][\A s \in Slots :
            (pc[s] = "forwarded" /\ pc'[s] # "forwarded") =>
                /\ upstreamResp'[s].readErr <=> pc'[s] = "aborted"
                /\ upstreamResp'[s].readErr =>
                      /\ UNCHANGED <<requestLogChan, accepted, consumer, handed, db>>
                      /\ enq'[s] = "none"]_vars
    /\ [](\A s \in Slots : pc[s] = "aborted" => enq[s] = "none" /\ upstreamResp[s].readErr)
    /\ [](\A rec \in EverRecorded :
            rec.ResponseHeaders # HeadersToJSON(RespReadErr.header))

\* Recording is on, the channel is empty, and the read of a response body
\* failed: nothing was enqueued for the exchange.
C25_Witness ==
    /\ IsRecording
    /\ requestLogChan = <<>> /\ accepted = <<>>
    /\ \E s \in Slots :
          /\ pc[s] = "aborted"
          /\ upstreamResp[s] = RespReadErr
          /\ enq[s] = "none"

\* C26: an insert that fails is logged and its record is skipped - the store,
\* the channel and the records handed over stay as they are and the consumer
\* goes back to receiving; an insert that succeeds appends the row of the
\* record in hand.  The records handed to LogRequest, followed by those on the
\* channel, remain the accepted records in their order, and after a failure
\* every accepted record is still handed to LogRequest at some time.
C26_FailedInsertSkipped ==
    /\ [][(consumer.at = "log" /\ consumer' # consumer) =>
            /\ consumer'.at = "recv"
            /\ UNCHANGED <<requestLogChan, handed, accepted>>
            /\ \/ /\ InsertFailures' = InsertFailures + 1
                  /\ db' = db
               \/ /\ InsertFailures' = InsertFailures
                  /\ db' = Append(db, [RowOf(consumer.entry) EXCEPT !.ID = Len(db) + 1])]_vars
    /\ [](handed \o requestLogChan = accepted)
    /\ [](Len(db) + InsertFailures + (IF consumer.at = "log" THEN 1 ELSE 0) = Len(handed))
    /\ \A n \in 1..(MaxRequests + MaxInsertFailures) :
          (InsertFailures > 0 /\ Len(accepted) >= n) ~> (Len(handed) >= n)

\* The insert of the first of three records failed; the two behind it were
\* handed to LogRequest in their order and are stored.
C26_Witness ==
    /\ InsertFailures = 1
    /\ Len(accepted) = 3 /\ handed = accepted
    /\ Len(db) = 2
    /\ db[1] = [RowOf(handed[2]) EXCEPT !.ID = 1]
    /\ db[2] = [RowOf(handed[3]) EXCEPT !.ID = 2]
    /\ consumer.at = "recv"

\* C27: a step either leaves the rows of the store as they are or is an
\* insert by the consumer, which keeps every row and adds one at the end: the
\* row of the record in hand under an id greater than the id of every row
\* there; so the ids of the store are distinct and ascend in the order of
\* insertion.
C27_AppendOnly ==
    /\ [][\/ db' = db
          \/ /\ consumer.at = "log"
             /\ Len(db') = Len(db) + 1
             /\ SubSeq(db', 1, Len(db)) = db
             /\ \A i \in 1..Len(db) : db'[Len(db')].ID > db[i].ID
             /\ [db'[Len(db')] EXCEPT !.ID = 0] = [RowOf(consumer.entry) EXCEPT !.ID = 0]]_vars
    /\ [](\A i, j \in 1..Len(db) : i < j => db[i].ID < db[j].ID)
    /\ [](\A i \in 1..Len(db) : db[i].ID > 0)

\* A first exchange was stored and exported, the list was not touched by it,
\* and a second exchange was stored after it under the next id.
C27_Witness ==
    /\ Len(db) = 2
    /\ db[1].ID = 1 /\ db[2].ID = 2
    /\ adminResp.op = "export" /\ adminResp.status = 200
    /\ Len(adminResp.body.entries) = 1
    /\ adminResp.body.entries[1].startedDateTime = db[1].Timestamp

\* C28: a replay call, whatever it is answered, leaves the channel, the
\* record with the consumer, the store and the recording state as they were.
C28_ReplayFrame ==
    [][(nread' # nread /\ adminResp'.op = "replay") =>
          UNCHANGED <<requestLogChan, consumer, db, IsRecording>>]_vars

\* An exchange is stored and the record of another waits on the channel; a
\* replay was answered 200 in between and neither was touched.
C28_Witness ==
    /\ adminResp.op = "replay" /\ adminResp.status = 200
    /\ Len(db) = 1 /\ Len(requestLogChan) = 1
    /\ IsRecording

\* C29: nothing about recording is decided when a request begins or when the
\* recording state is switched - neither step touches the channel or marks an
\* exchange in flight; the step that has read the response enqueues the
\* record (or drops it for want of room) exactly if recording is on at that
\* step, whatever the state was when the process and the exchange started.
C29_DecidedAtResponse ==
    /\ [][(nreq' # nreq \/ nadmin' # nadmin) =>
            /\ UNCHANGED <<requestLogChan, accepted>>
            /\ \A s \in Slots : enq'[s] = "none" \/ enq'[s] = enq[s]]_vars
    /\ [][\A s \in Slots :
            (pc[s] = "forwarded" /\ pc'[s] = "responded") =>
                /\ IsRecording =>
                      /\ enq'[s] \in {"sent", "dropped"}
                      /\ enq'[s] = "sent" <=> Len(requestLogChan) < QueueCap
                      /\ enq'[s] = "sent" =>
                            requestLogChan' = Append(requestLogChan, reqLog'[s])
                /\ ~IsRecording =>
                      /\ enq'[s] = "off"
                      /\ requestLogChan' = requestLogChan]_vars

\* The process started with recording off and an exchange began; recording
\* was started while it was in flight, and its record was enqueued when its
\* response had been read.
C29_Witness ==
    /\ ~recordOnStart /\ IsRecording /\ nadmin = 1
    /\ \E s \in Slots :
          /\ pc[s] = "responded" /\ enq[s] = "sent"
          /\ reqLog[s] \in Range(accepted)

\* The stored rows, by position, that match the filters of a list call.
MatchingRows(query) ==
    {i \in 1..Len(db) : Matches(db[i], query.url, query.start_date, query.end_date)}

\* The place of row i among the rows M when they are put in descending order
\* of their timestamps.
PlaceOf(i, M) == 1 + Cardinality({j \in M : db[j].Timestamp > db[i].Timestamp})

\* The answer holds, in order, the rows of M whose places are first..last, and
\* no other row of M.
HoldsPlaces(got, M, first, last) ==
    /\ Len(got) = IF last >= first THEN last - first + 1 ELSE 0
    /\ \A i \in M :
          IF first <= PlaceOf(i, M) /\ PlaceOf(i, M) <= last
          THEN got[PlaceOf(i, M) - first + 1] = ListedRow(db[i])
          ELSE \A j \in 1..Len(got) : got[j].ID # db[i].ID

\* C30: the list answer for page p by page size n over the rows matching its
\* filters, total in number, holds exactly the rows at places (p-1)*n+1 to
\* min(p*n, total) of their descending timestamp order, in that order - so
\* each matching row is on the one page its place falls on, the last page
\* holds the remainder - and it is empty when p is beyond total_pages.
C30_Pages ==
    adminResp.op = "list" =>
        LET page     == adminResp.body.page
            pageSize == adminResp.body.page_size
            total    == Cardinality(MatchingRows(adminResp.query))
        IN  /\ HoldsPlaces(adminResp.body.requests, MatchingRows(adminResp.query),
                           (page - 1) * pageSize + 1, min(page * pageSize, total))
            /\ page > adminResp.body.total_pages => adminResp.body.requests = <<>>
            /\ (page = adminResp.body.total_pages /\ total % pageSize # 0) =>
                  Len(adminResp.body.requests) = total % pageSize

\* A store of 120 rows with distinct timestamps has been listed by 100: page 3
\* is beyond the two pages there are and came back empty.
C30_Witness ==
    /\ adminResp.op = "list"
    /\ adminResp.query.url = "" /\ adminResp.query.start_date = ""
    /\ adminResp.query.end_date = ""
    /\ Len(db) = 120
    /\ adminResp.body.page = 3 /\ adminResp.body.page_size = 100
    /\ adminResp.body.total_pages = 2
    /\ adminResp.body.requests = <<>>

=============================================================================
